---- MODULE Spec2Model ----
(***************************************************************************)
(* A state-machine model of nmea0183tomqtt (src/nmea0183tomqtt.c): the     *)
(* sentence-enable table, the retained cache with its coherent flush, the  *)
(* GSV satellite tracker, the port-liveness timer, the MQTT configuration  *)
(* listener and the shutdown self-sync.                                    *)
(*                                                                         *)
(* C strings are sequences of one-character strings; NUL is the marker     *)
(* below.  Outbound MQTT topics and payloads are TLA+ strings built with   *)
(* \o, exactly as the code builds them with sprintf.  The MQTT library,    *)
(* the serial port and the logging sink are the environment: a publish     *)
(* always succeeds (a failing one ends the process with exit(1)).          *)
(***************************************************************************)
EXTENDS Integers, Sequences, FiniteSets, TLC

VARIABLES
    pc,                 \* position in main(): args, poll, break, sync, done, crashed
    sigterm,            \* static volatile int sigterm
    ready,              \* static volatile int ready
    nmea_use,           \* static char nmea_use[]
    def_talker,         \* static const char *def_talker (-D)
    def_talker_mqtt,    \* static char *def_talker_mqtt (NullStr when NULL)
    always,             \* static int always
    deaddelay,          \* static int deaddelay
    portalive,          \* static int portalive
    talker,             \* static char talker[3]
    topics,             \* the linked list topics..lasttopic
    ndirty,             \* static int ndirty
    in_data_sentence,   \* static int in_data_sentence
    sats,               \* static struct sat *sats (the non-zero records)
    ssats,              \* static int ssats
    gsvs,               \* static struct gsv *gsvs, entries 0..ngsvs-1
    sgsvs,              \* static int sgsvs
    heap,               \* what the pointers sats and gsvs refer to
    gn_satuse_emitted,  \* static int gn_satuse_emitted (satuse_updated)
    myuuid,             \* static char *myuuid (NullStr when NULL)
    alarm,              \* seconds given to the last alarm() call
    buf,                \* static char *buf: the buflen bytes not yet consumed
    bufsize,            \* static size_t bufsize
    fed,                \* every chunk of bytes handed to recvd_data so far
    handed,             \* the lines and frames recvd_data has handed on so far
    broker,             \* per topic, the last publish handed to the MQTT client
    ev,                 \* the calls made by the last step, in order
    lastEvt             \* the event the last step handled, and the state it met

vars == <<pc, sigterm, ready, nmea_use, def_talker, def_talker_mqtt, always,
          deaddelay, portalive, talker, topics, ndirty, in_data_sentence,
          sats, ssats, gsvs, sgsvs, heap, gn_satuse_emitted, myuuid, alarm,
          buf, bufsize, fed, handed, broker, ev, lastEvt>>

(***************************************************************************)
(* Bounds of the model.                                                    *)
(***************************************************************************)
MaxTokens == 2      \* tokens in a cfg/msgs or -n payload
MaxTrack == 4       \* reads stop at this sattrack count of a talker
MaxTopics == 14     \* reads stop at this number of cache entries

(***************************************************************************)
(* C strings.                                                              *)
(***************************************************************************)
NUL == "NUL"
NullStr == "NULL"

RECURSIVE Str(_)
Str(cs) == IF cs = <<>> THEN "" ELSE Head(cs) \o Str(Tail(cs))

Lower(c) ==
    CASE c = "A" -> "a" [] c = "B" -> "b" [] c = "C" -> "c" [] c = "D" -> "d"
      [] c = "E" -> "e" [] c = "F" -> "f" [] c = "G" -> "g" [] c = "H" -> "h"
      [] c = "I" -> "i" [] c = "J" -> "j" [] c = "K" -> "k" [] c = "L" -> "l"
      [] c = "M" -> "m" [] c = "N" -> "n" [] c = "O" -> "o" [] c = "P" -> "p"
      [] c = "Q" -> "q" [] c = "R" -> "r" [] c = "S" -> "s" [] c = "T" -> "t"
      [] c = "U" -> "u" [] c = "V" -> "v" [] c = "W" -> "w" [] c = "X" -> "x"
      [] c = "Y" -> "y" [] c = "Z" -> "z" [] OTHER -> c

LowerStr(cs) == [i \in 1..Len(cs) |-> Lower(cs[i])]

DigitVal(c) ==
    CASE c = "0" -> 0 [] c = "1" -> 1 [] c = "2" -> 2 [] c = "3" -> 3
      [] c = "4" -> 4 [] c = "5" -> 5 [] c = "6" -> 6 [] c = "7" -> 7
      [] c = "8" -> 8 [] c = "9" -> 9 [] OTHER -> -1

\* strtoul(s, NULL, 10) for an unsigned or "-"-signed decimal prefix, as an int
RECURSIVE StrToULFrom(_, _, _)
StrToULFrom(cs, i, acc) ==
    IF i > Len(cs) \/ DigitVal(cs[i]) < 0 THEN acc
    ELSE StrToULFrom(cs, i + 1, acc * 10 + DigitVal(cs[i]))

StrToUL(cs) ==
    IF cs # <<>> /\ cs[1] = "-" THEN 0 - StrToULFrom(cs, 2, 0)
    ELSE StrToULFrom(cs, 1, 0)

\* printf("%i") of a small integer
DigitChr(d) == <<"0", "1", "2", "3", "4", "5", "6", "7", "8", "9">>[d + 1]

RECURSIVE FmtNat(_)
FmtNat(n) == IF n < 10 THEN DigitChr(n) ELSE FmtNat(n \div 10) \o DigitChr(n % 10)

FmtInt(n) == IF n < 0 THEN "-" \o FmtNat(0 - n) ELSE FmtNat(n)

RECURSIVE Pow10(_)
Pow10(k) == IF k = 0 THEN 1 ELSE 10 * Pow10(k - 1)

\* printf("%0<w>i") of a natural number below 10^w
RECURSIVE PadNat(_, _)
PadNat(n, w) == IF w = 0 THEN "" ELSE PadNat(n \div 10, w - 1) \o DigitChr(n % 10)

\* the digits after the decimal point of a decimal string
FracDigits(cs) ==
    IF \E i \in 1..Len(cs) : cs[i] = "."
    THEN LET dot == CHOOSE i \in 1..Len(cs) : cs[i] = "." /\ \A j \in 1..(i - 1) : cs[j] # "."
             run == {n \in 0..(Len(cs) - dot) : \A j \in 1..n : DigitVal(cs[dot + j]) >= 0}
         IN  SubSeq(cs, dot + 1, dot + (CHOOSE n \in run : \A h \in run : h <= n))
    ELSE <<>>

\* the first k digits of ds as a number, ds padded with zeros on the right
RECURSIVE DigitsScaled(_, _, _)
DigitsScaled(ds, k, acc) ==
    IF k = 0 THEN acc
    ELSE DigitsScaled(IF ds = <<>> THEN ds ELSE Tail(ds), k - 1,
                      acc * 10 + (IF ds = <<>> THEN 0 ELSE DigitVal(Head(ds))))

\* whole.frac with prec decimals, r the value in units of 10^-prec
FmtScaled(sign, r, prec) ==
    sign \o FmtNat(r \div Pow10(prec)) \o "." \o PadNat(r % Pow10(prec), prec)

\* printf("%.<prec>lf", strtod(body)) for an unsigned decimal string: the decimal
\* after the last printed one decides the rounding (C rounds an exactly
\* representable half to even; the modelled fields hold none)
FmtFixed(sign, body, prec) ==
    FmtScaled(sign,
              StrToULFrom(body, 1, 0) * Pow10(prec)
                  + (DigitsScaled(FracDigits(body), prec + 1, 0) + 5) \div 10,
              prec)

\* strlen of a char array: the characters before the first NUL
StrLen(arr) ==
    IF \E i \in 1..Len(arr) : arr[i] = NUL
    THEN (CHOOSE i \in 1..Len(arr) : arr[i] = NUL /\ \A j \in 1..(i - 1) : arr[j] # NUL) - 1
    ELSE Len(arr)

\* strcasestr(hay, needle): the 0-based offset of the first match, -1 for NULL
StrCaseStr(hay, needle) ==
    LET n == StrLen(hay)
        k == Len(needle)
        At(i) == \A j \in 1..k : Lower(hay[i + j]) = Lower(needle[j])
        hits == {i \in 0..(n - k) : At(i)}
    IN  IF hits = {} THEN -1 ELSE CHOOSE i \in hits : \A h \in hits : i <= h

\* strncmp(a, b, n) = 0, a and b NUL-terminated
StrNCmpEq(a, b, n) ==
    LET ca(i) == IF i <= Len(a) THEN a[i] ELSE NUL
        cb(i) == IF i <= Len(b) THEN b[i] ELSE NUL
        stop == {i \in 1..n : ca(i) # cb(i) \/ ca(i) = NUL}
    IN  \A i \in stop : ca(i) = cb(i) \/ \E j \in stop : j < i

StrCmpEq(a, b) == a = b

\* strtok(msgs, ","): the non-empty runs between commas
RECURSIVE StrTok(_, _, _)
StrTok(cs, i, cur) ==
    IF i > Len(cs) THEN (IF cur = <<>> THEN <<>> ELSE <<cur>>)
    ELSE IF cs[i] = "," THEN (IF cur = <<>> THEN <<>> ELSE <<cur>>) \o StrTok(cs, i + 1, <<>>)
    ELSE StrTok(cs, i + 1, Append(cur, cs[i]))

(***************************************************************************)
(* The sentence-enable table.                                              *)
(***************************************************************************)
NmeaUseDefault ==
    <<"+", "g", "g", "a", ",", "-", "g", "n", "s", ",", "-", "g", "s", "a", ",",
      "-", "g", "s", "v", ",", "+", "v", "t", "g", ",", "+", "z", "d", "a",
      NUL, NUL, NUL>>

\* nmea_use_msg(msg) on table tab; reading tab[-1] is a read before the array
NmeaUseMsgIn(tab, msg) ==
    LET off == StrCaseStr(tab, msg)
    IN  IF off < 0 THEN 0
        ELSE IF off = 0 THEN 0
        ELSE IF tab[off] = "+" THEN 1 ELSE 0

\* the absolute-mode loop: for (str = nmea_use; *str; str += 5) *str = '-'
RECURSIVE ResetAll(_, _)
ResetAll(tab, off) ==
    IF off >= Len(tab) \/ tab[off + 1] = NUL THEN tab
    ELSE ResetAll([tab EXCEPT ![off + 1] = "-"], off + 5)

\* one token of merge_nmea_use with the sign taken as + whatever the token says
MergeTokenPlus(r, tok) ==
    LET signed == tok[1] \in {"+", "-"}
        name == IF signed THEN Tail(tok) ELSE tok
        off == StrCaseStr(r.tab, name)
    IN  IF off < 0 THEN r
        ELSE IF off = 0 THEN [r EXCEPT !.oob = TRUE]
        ELSE [r EXCEPT !.tab[off] = "+"]

\* one token of merge_nmea_use: r is [tab, oob]
MergeToken(r, tok) ==
    LET signed == tok[1] \in {"+", "-"}
        mod == IF signed THEN tok[1] ELSE "+"
        name == IF signed THEN Tail(tok) ELSE tok
        off == StrCaseStr(r.tab, name)
    IN  IF off < 0 THEN r
        ELSE IF off = 0 THEN [r EXCEPT !.oob = TRUE]
        ELSE [r EXCEPT !.tab[off] = mod]

RECURSIVE MergeTokens(_, _)
MergeTokens(r, toks) ==
    IF toks = <<>> THEN r ELSE MergeTokens(MergeToken(r, Head(toks)), Tail(toks))

\* merge_nmea_use(msgs): msgs[0] is NUL for an empty string
MergeNmeaUse(tab, msgs) ==
    LET first == IF msgs = <<>> THEN NUL ELSE msgs[1]
        t0 == IF first # "+" /\ first # "-" THEN ResetAll(tab, 0) ELSE tab
    IN  MergeTokens([tab |-> t0, oob |-> FALSE], StrTok(msgs, 1, <<>>))

(***************************************************************************)
(* Program constants and the machine state handed through the code.        *)
(***************************************************************************)
TopicPrefix == <<"g", "p", "s", "/">>               \* topicprefix
CfgPrefix == <<"c", "f", "g", "/">>                 \* cfgprefix
SelfSyncTopic == <<"t", "m", "p", "/", "s", "e", "l", "f", "s", "y", "n", "c">>

FL_RETAIN == 1
FL_IGN_DEF_TALKER == 2
FL_NO_CACHE == 4
GSV_FLAGS == 7

TopicPrefixStr == Str(TopicPrefix)

HasFlag(flags, bit) == (flags \div bit) % 2 = 1

SatsChunk == 128    \* capacity step of the per-PRN vector
GsvsChunk == 16     \* capacity step of the per-talker vector

\* the whole program state as one value.  snap holds the state at the first
\* undefined operation of the step (a released block handed to realloc or
\* free, an index outside its vector): the step then has two outcomes, the
\* process ended there by the allocator or the kernel, or the code running on
\* as if the storage were its own
Cur ==
    [pc |-> pc, sigterm |-> sigterm, ready |-> ready, nmea_use |-> nmea_use,
     def_talker |-> def_talker, def_talker_mqtt |-> def_talker_mqtt,
     always |-> always, deaddelay |-> deaddelay, portalive |-> portalive,
     talker |-> talker, topics |-> topics, ndirty |-> ndirty,
     in_data_sentence |-> in_data_sentence, sats |-> sats, ssats |-> ssats,
     gsvs |-> gsvs, sgsvs |-> sgsvs, heap |-> heap,
     gn_satuse_emitted |-> gn_satuse_emitted, myuuid |-> myuuid,
     alarm |-> alarm, buf |-> buf, bufsize |-> bufsize, fed |-> fed,
     handed |-> handed, bufpos |-> 0, broker |-> broker, ev |-> <<>>,
     snap |-> <<>>, sure |-> FALSE]

Outcomes(m) ==
    (IF m.sure THEN {} ELSE {m})
        \cup (IF m.snap = <<>> THEN {} ELSE {[m.snap[1] EXCEPT !.pc = "crashed"]})

Commit(mm, evt) ==
  \E m \in Outcomes(mm) :
    /\ pc' = m.pc
    /\ sigterm' = m.sigterm
    /\ ready' = m.ready
    /\ nmea_use' = m.nmea_use
    /\ def_talker' = m.def_talker
    /\ def_talker_mqtt' = m.def_talker_mqtt
    /\ always' = m.always
    /\ deaddelay' = m.deaddelay
    /\ portalive' = m.portalive
    /\ talker' = m.talker
    /\ topics' = m.topics
    /\ ndirty' = m.ndirty
    /\ in_data_sentence' = m.in_data_sentence
    /\ sats' = m.sats
    /\ ssats' = m.ssats
    /\ gsvs' = m.gsvs
    /\ sgsvs' = m.sgsvs
    /\ heap' = m.heap
    /\ gn_satuse_emitted' = m.gn_satuse_emitted
    /\ myuuid' = m.myuuid
    /\ alarm' = m.alarm
    /\ buf' = m.buf
    /\ bufsize' = m.bufsize
    /\ fed' = m.fed
    /\ handed' = m.handed
    /\ broker' = m.broker
    /\ ev' = m.ev
    /\ lastEvt' = evt

\* an undefined operation: remember where the process may have ended
Undefined(m) == IF m.snap # <<>> THEN m ELSE [m EXCEPT !.snap = <<m>>]

\* a read through a NULL pointer: the process ends here
Segfault(m) == [Undefined(m) EXCEPT !.sure = TRUE]

(***************************************************************************)
(* The retained cache.                                                     *)
(***************************************************************************)
EvPub(topic, payload, retain) ==
    [op |-> "pub", topic |-> topic, payload |-> payload, n |-> retain, a |-> 0,
     w |-> <<>>]
EvCache(topic, value) ==
    [op |-> "cache", topic |-> topic, payload |-> value, n |-> 0, a |-> 0,
     w |-> <<>>]
\* entry to flush_pending_topics with ndirty = nd and always = alw, w the
\* entries that are marked written at that moment, and its return
EvFlush(nd, alw, w) ==
    [op |-> "flush", topic |-> "", payload |-> "", n |-> nd, a |-> alw, w |-> w]
EvFlushed ==
    [op |-> "flushed", topic |-> "", payload |-> "", n |-> 0, a |-> 0, w |-> <<>>]

PayloadStr(p) == IF p = NullStr THEN "" ELSE p

\* mosquitto_publish(mosq, NULL, topic, strlen(payload), payload, qos, retain)
MosqPublish(m, topic, payload, retain) ==
    [m EXCEPT !.ev = Append(@, EvPub(topic, payload, retain)),
              !.broker = (topic :> [payload |-> payload, retain |-> retain]) @@ @]

TopicIndex(list, realtopic) ==
    IF \E i \in 1..Len(list) : list[i].topic = realtopic
    THEN CHOOSE i \in 1..Len(list) :
            list[i].topic = realtopic /\ \A j \in 1..(i - 1) : list[j].topic # realtopic
    ELSE 0

\* publish_cache with the comparison against the cached payload left out
PublishCacheNoCompare(m, realtopic, value, flags) ==
    IF ~HasFlag(flags, FL_RETAIN) \/ HasFlag(flags, FL_NO_CACHE)
    THEN MosqPublish(m, realtopic, value, IF HasFlag(flags, FL_RETAIN) THEN 1 ELSE 0)
    ELSE
      LET found == TopicIndex(m.topics, realtopic)
          fresh == [topic |-> realtopic, payload |-> NullStr, written |-> 0,
                    retain |-> 1,
                    ctrltopic |-> IF m.in_data_sentence = 0 THEN 1 ELSE 0]
          list == IF found = 0 THEN Append(m.topics, fresh) ELSE m.topics
          i == IF found = 0 THEN Len(list) ELSE found
      IN  [m EXCEPT
             !.topics = [list EXCEPT ![i].written = 1, ![i].payload = value],
             !.ndirty = @ + 1,
             !.ev = Append(@, EvCache(realtopic, value))]

PublishCache(m, realtopic, value, flags) ==
    IF ~HasFlag(flags, FL_RETAIN) \/ HasFlag(flags, FL_NO_CACHE)
    THEN MosqPublish(m, realtopic, value, IF HasFlag(flags, FL_RETAIN) THEN 1 ELSE 0)
    ELSE
      LET found == TopicIndex(m.topics, realtopic)
          fresh == [topic |-> realtopic, payload |-> NullStr, written |-> 0,
                    retain |-> 1,
                    ctrltopic |-> IF m.in_data_sentence = 0 THEN 1 ELSE 0]
          list == IF found = 0 THEN Append(m.topics, fresh) ELSE m.topics
          i == IF found = 0 THEN Len(list) ELSE found
          differs == PayloadStr(list[i].payload) # value
      IN  [m EXCEPT
             !.topics = [list EXCEPT ![i].written = 1,
                                     ![i].payload = IF differs THEN value ELSE @],
             !.ndirty = IF differs THEN @ + 1 ELSE @,
             !.ev = Append(@, EvCache(realtopic, value))]

EffDefTalker(m) ==
    IF m.def_talker_mqtt # NullStr THEN m.def_talker_mqtt ELSE m.def_talker

\* the talker-qualified form for every given talker, the comparison with the
\* default talker left out
RealTopicQualified(m, tk, topic, flags) ==
    IF tk # NullStr THEN TopicPrefixStr \o tk \o "/" \o topic
    ELSE TopicPrefixStr \o topic

\* the topic publish_topicrt resolves to
RealTopic(m, tk, topic, flags) ==
    IF tk # NullStr /\ (HasFlag(flags, FL_IGN_DEF_TALKER) \/ tk # EffDefTalker(m))
    THEN TopicPrefixStr \o tk \o "/" \o topic
    ELSE TopicPrefixStr \o topic

\* publish_topicrt(talker, topic, flags, vfmt, ...), value already formatted
PublishTopicRt(m, tk, topic, flags, value) ==
    PublishCache(m, RealTopic(m, tk, topic, flags),
                 IF value = "nan" THEN "" ELSE value, flags)

\* the entries with written set, in the order of the list
IsWritten(it) == it.written = 1
WrittenEntries(list) == SelectSeq(list, IsWritten)

\* the loop of flush_pending_topics with it->written = 0 left out
RECURSIVE FlushFromKeepWritten(_, _, _)
FlushFromKeepWritten(m, i, doit) ==
    IF i > Len(m.topics) THEN m
    ELSE FlushFromKeepWritten(
            IF m.topics[i].written = 1 /\ doit
            THEN MosqPublish(m, m.topics[i].topic, PayloadStr(m.topics[i].payload),
                             m.topics[i].retain)
            ELSE m,
            i + 1, doit)

RECURSIVE FlushFrom(_, _, _)
FlushFrom(m, i, doit) ==
    IF i > Len(m.topics) THEN m
    ELSE LET it == m.topics[i]
             m1 == IF it.written = 1 /\ doit
                   THEN MosqPublish(m, it.topic, PayloadStr(it.payload), it.retain)
                   ELSE m
         IN  FlushFrom([m1 EXCEPT !.topics[i].written = 0], i + 1, doit)

\* flush_pending_topics with the test (ndirty || always) left out
FlushUnconditional(m) ==
    LET m0 == [m EXCEPT !.ev = Append(@, EvFlush(m.ndirty, m.always, WrittenEntries(m.topics)))]
        m1 == FlushFrom(m0, 1, TRUE)
    IN  [m1 EXCEPT !.ndirty = 0, !.ev = Append(@, EvFlushed)]

FlushPendingTopics(m) ==
    LET m0 == [m EXCEPT !.ev = Append(@, EvFlush(m.ndirty, m.always, WrittenEntries(m.topics)))]
        m1 == FlushFrom(m0, 1, m.ndirty # 0 \/ m.always # 0)
    IN  [m1 EXCEPT !.ndirty = 0, !.ev = Append(@, EvFlushed)]

EraseEntry(it, clrctrl) ==
    IF (it.ctrltopic = 1 /\ clrctrl = 0) \/ it.payload = NullStr THEN it
    ELSE [it EXCEPT !.payload = NullStr, !.written = 1]

EraseTopics(m, clrctrl) ==
    LET list == [i \in 1..Len(m.topics) |-> EraseEntry(m.topics[i], clrctrl)]
        n == Cardinality({i \in 1..Len(list) : list[i] # m.topics[i]})
    IN  FlushPendingTopics([m EXCEPT !.topics = list, !.ndirty = @ + n])

(***************************************************************************)
(* Sentences.  A line that passed nmea_is_valid_sentence is its sequence   *)
(* of comma-separated fields (the leading $ and the *XX suffix removed);   *)
(* nmea_tok hands them out one per call and returns NULL for an empty      *)
(* field and for every call after the last field.                          *)
(***************************************************************************)
Tok(toks, i) == IF i <= Len(toks) THEN toks[i] ELSE <<>>

\* printf("%.<prec>lf", nmea_strtod(tok)): NaN for an empty field
FmtDouble(tok, prec) ==
    IF tok = <<>> THEN "nan"
    ELSE IF tok[1] = "-" THEN FmtFixed("-", Tail(tok), prec)
    ELSE FmtFixed("", tok, prec)

\* n decimals of rem/den by long division: [q |-> the digits as a number, rem]
RECURSIVE DivDigits(_, _, _, _)
DivDigits(rem, den, n, acc) ==
    IF n = 0 THEN [q |-> acc, rem |-> rem]
    ELSE DivDigits((rem * 10) % den, den, n - 1, acc * 10 + (rem * 10) \div den)

\* degrees in units of 10^-7: whole degrees, seven decimals, rounded
DegScaled(whole, d, den) ==
    whole * Pow10(7) + d.q + (IF 2 * d.rem >= den THEN 1 ELSE 0)

\* nmea_deg_to_double for lval = DDDMM and the minute decimals frac:
\* ((lval % 100) + 0.frac) / 60.0 + lval / 100, in units of 10^-7
DegOf(lval, frac) ==
    LET k == Len(frac)
        den == 60 * Pow10(k)
        num == (lval % 100) * Pow10(k) + DigitsScaled(frac, k, 0)
    IN  DegScaled(lval \div 100 + num \div den, DivDigits(num % den, den, 7, 0), den)

\* printf("%.7lf", +-nmea_deg_to_double(tok)); a negated NaN prints as -nan
FmtDeg(tok, neg) ==
    (IF neg THEN "-" ELSE "")
        \o (IF tok = <<>> THEN "nan"
            ELSE FmtScaled("", DegOf(StrToULFrom(tok, 1, 0), FracDigits(tok)), 7))

StrQuality ==
    <<"none", "gps", "dgps", "pps", "rtk", "float-rtk", "estimated",
      "manual input", "simulation">>
StrMode == <<"", "no fix", "2D", "3D">>

\* fromtable(table, idx) ?: ""   (index 0 of strmode is a NULL entry)
FromTable(table, idx) ==
    IF idx < 0 \/ idx >= Len(table) THEN "" ELSE table[idx + 1]

NmeaUseMsg(m, msg) == NmeaUseMsgIn(m.nmea_use, msg)

PublishTopic(m, topic, value) == PublishTopicRt(m, m.talker, topic, FL_RETAIN, value)
PublishTopicR(m, topic, flags, value) == PublishTopicRt(m, m.talker, topic, flags, value)

(***************************************************************************)
(* The satellite tracker.                                                  *)
(***************************************************************************)
ZeroSat == [snr |-> 0, elv |-> 0, azm |-> 0, recvd |-> 0, sent |-> 0]

SatAt(m, prn) == IF prn \in DOMAIN m.sats THEN m.sats[prn] ELSE ZeroSat

SetSat(m, prn, rec) ==
    [m EXCEPT !.sats =
        IF rec = ZeroSat
        THEN [q \in (DOMAIN m.sats) \ {prn} |-> m.sats[q]]
        ELSE (prn :> rec) @@ m.sats]

\* realloc(ptr, ...) of the block named which: a released pointer is undefined
Realloc(m, which) ==
    LET m1 == IF m.heap[which] = "freed" THEN Undefined(m) ELSE m
    IN  [m1 EXCEPT !.heap[which] = "live"]

\* if (ptr) free(ptr), the pointer itself left as it is
FreeBlock(m, which) ==
    CASE m.heap[which] = "null" -> m
      [] m.heap[which] = "live" -> [m EXCEPT !.heap[which] = "freed"]
      [] OTHER -> Undefined(m)

GsvIndex(list, tk) ==
    IF \E i \in 1..Len(list) : list[i].talker = tk
    THEN CHOOSE i \in 1..Len(list) :
            list[i].talker = tk /\ \A j \in 1..(i - 1) : list[j].talker # tk
    ELSE 0

NewGsv(tk) ==
    [talker |-> tk, satmin |-> 0, satmax |-> 0, satview |-> 0, sattrack |-> 0,
     sattrack_saved |-> 0, satuse |-> 0, new |-> 1]

\* find_gsv(talker): the state after it and the index of the entry (1-based)
FindGsv(m, tk) ==
    LET found == GsvIndex(m.gsvs, tk)
    IN  IF found # 0 THEN [m |-> m, gi |-> found]
        ELSE LET m1 == IF Len(m.gsvs) >= m.sgsvs
                       THEN Realloc([m EXCEPT !.sgsvs = @ + GsvsChunk], "gsvs")
                       ELSE m
             IN  [m |-> [m1 EXCEPT !.gsvs = Append(@, NewGsv(tk))],
                  gi |-> Len(m.gsvs) + 1]

RECURSIVE SumField(_, _)
SumField(list, f) == IF list = <<>> THEN 0 ELSE Head(list)[f] + SumField(Tail(list), f)

\* the body of satuse_updated once find_gsv has returned entry gi
SatUseStore(m, gi, satuse) ==
    IF m.always # 0 \/ m.gsvs[gi].satuse # satuse
    THEN PublishTopicRt([m EXCEPT !.gsvs[gi].satuse = satuse],
                        "gn", "satuse", FL_RETAIN + FL_IGN_DEF_TALKER,
                        FmtInt(SumField([m.gsvs EXCEPT ![gi].satuse = satuse], "satuse")))
    ELSE m

SatUseFound(f, satuse) == SatUseStore(f.m, f.gi, satuse)

\* satuse_updated without the test of gn_satuse_emitted (lines 682-684)
SatUseUpdatedNoLatch(m, tk, satuse) ==
    IF tk = "gn" THEN [m EXCEPT !.gn_satuse_emitted = 1]
    ELSE SatUseFound(FindGsv(m, tk), satuse)

SatUseUpdated(m, tk, satuse) ==
    IF tk = "gn" THEN [m EXCEPT !.gn_satuse_emitted = 1]
    ELSE IF m.gn_satuse_emitted # 0 THEN m
    ELSE SatUseFound(FindGsv(m, tk), satuse)

SatTopic(prn, leaf) == "sat/" \o FmtInt(prn) \o "/" \o leaf

ClearSat(m, tk, prn) ==
    IF prn >= m.ssats THEN m
    ELSE LET m1 == IF SatAt(m, prn).sent # 0
                   THEN PublishTopicRt(
                          PublishTopicRt(
                            PublishTopicRt(m, tk, SatTopic(prn, "elv"), GSV_FLAGS, ""),
                            tk, SatTopic(prn, "azm"), GSV_FLAGS, ""),
                          tk, SatTopic(prn, "snr"), GSV_FLAGS, "")
                   ELSE m
         IN  SetSat(m1, prn, ZeroSat)

RECURSIVE ClearSatRange(_, _, _, _)
ClearSatRange(m, tk, k, last) ==
    IF k > last THEN m ELSE ClearSatRange(ClearSat(m, tk, k), tk, k + 1, last)

RECURSIVE ClearGsvsFrom(_, _)
ClearGsvsFrom(m, j) ==
    IF j > Len(m.gsvs) THEN m
    ELSE LET g == m.gsvs[j]
             m1 == ClearSatRange(m, g.talker, g.satmin, g.satmax)
             m2 == PublishTopicRt(m1, g.talker, "satview", GSV_FLAGS, "")
             m3 == PublishTopicRt(m2, g.talker, "sattrack", GSV_FLAGS, "")
         IN  ClearGsvsFrom([m3 EXCEPT !.gsvs[j].satview = 0, !.gsvs[j].sattrack = 0,
                                      !.gsvs[j].sattrack_saved = 0], j + 1)

ClearGsvs(m) ==
    LET m1 == ClearGsvsFrom(m, 1)
        m2 == [m1 EXCEPT !.gsvs = <<>>, !.sgsvs = 0, !.ssats = 0, !.sats = <<>>]
    IN  FreeBlock(FreeBlock(m2, "sats"), "gsvs")

\* sat = sats+prn; sat->sent, sat->elv, ...: sats+prn lies in the vector only
\* for prn < ssats
GsvIndexed(m, prn) == IF prn >= m.ssats THEN Undefined(m) ELSE m

\* if (prn > ssats) { ssats = ssats ? ((prn + 127) & ~127) : 128;
\*                    sats = realloc(sats, ...); } sat = sats+prn;
GsvGrow(m, prn) ==
    GsvIndexed(IF prn > m.ssats
               THEN Realloc([m EXCEPT !.ssats =
                               IF m.ssats # 0
                               THEN SatsChunk * ((prn + SatsChunk - 1) \div SatsChunk)
                               ELSE SatsChunk], "sats")
               ELSE m,
               prn)

\* if (always || !sat->sent || val != sat-><leaf>) publish_topicr(...)
GsvPublish(m, sent, changed, prn, leaf, value) ==
    IF m.always # 0 \/ sent = 0 \/ changed
    THEN PublishTopicR(m, SatTopic(prn, leaf), GSV_FLAGS, value)
    ELSE m

\* sattrack, satmin and satmax of the talker's entry after one tuple
GsvCount(g, prn, snr) ==
    [g EXCEPT !.sattrack = IF snr >= 0 THEN @ + 1 ELSE @,
              !.satmin = IF prn < g.satmin \/ g.satmax = 0 THEN prn ELSE @,
              !.satmax = IF prn > g.satmax THEN prn ELSE @]

GsvStore(m, gi, prn, elv, azm, snr) ==
    [SetSat(m, prn, [snr |-> snr, elv |-> elv, azm |-> azm, recvd |-> 1, sent |-> 1])
       EXCEPT !.gsvs[gi] = GsvCount(@, prn, snr)]

\* one (PRN, elevation, azimuth, SNR) tuple, sat the entry before the tuple
GsvTuple(m, gi, sat, prn, elv, azm, snr) ==
    GsvStore(
      GsvPublish(
        GsvPublish(
          GsvPublish(m, sat.sent, elv # sat.elv, prn, "elv", FmtInt(elv)),
          sat.sent, azm # sat.azm, prn, "azm", FmtInt(azm)),
        sat.sent, snr # sat.snr, prn, "snr", IF snr < 0 THEN "" ELSE FmtInt(snr)),
      gi, prn, elv, azm, snr)

GsvTupleAt(m, gi, prn, elv, azm, snr) ==
    GsvTuple(m, gi, SatAt(m, prn), prn, elv, azm, snr)

\* the tuple loop of recvd_gsv, j = 0..3, ended by the first empty PRN field
RECURSIVE GsvTuples(_, _, _, _)
GsvTuples(m, gi, toks, j) ==
    IF j >= 4 \/ Tok(toks, 5 + 4 * j) = <<>> THEN m
    ELSE GsvTuples(
           GsvTupleAt(GsvGrow(m, StrToUL(Tok(toks, 5 + 4 * j))), gi,
                      StrToUL(Tok(toks, 5 + 4 * j)),
                      StrToUL(Tok(toks, 6 + 4 * j)),
                      StrToUL(Tok(toks, 7 + 4 * j)),
                      IF Tok(toks, 8 + 4 * j) = <<>> THEN -1
                      ELSE StrToUL(Tok(toks, 8 + 4 * j))),
           gi, toks, j + 1)

\* the start-of-block loop: sats[j].recvd = 0 for j in satmin..satmax, j < ssats
GsvBlockStart(m, gi) ==
    LET g == m.gsvs[gi]
        rng == {j \in g.satmin..g.satmax : j < m.ssats}
        keep == {q \in DOMAIN m.sats : ~(q \in rng /\ [m.sats[q] EXCEPT !.recvd = 0] = ZeroSat)}
    IN  [m EXCEPT !.sats = [q \in keep |->
                              IF q \in rng THEN [m.sats[q] EXCEPT !.recvd = 0]
                              ELSE m.sats[q]],
                  !.gsvs[gi].sattrack = 0]

\* the end-of-block loop: for (j = satmin; j < satmax; ++j)
RECURSIVE GsvClearLost(_, _, _)
GsvClearLost(m, j, last) ==
    IF j >= last THEN m
    ELSE GsvClearLost(IF SatAt(m, j).sent # 0 /\ SatAt(m, j).recvd = 0
                      THEN ClearSat(m, m.talker, j) ELSE GsvIndexed(m, j),
                      j + 1, last)

\* the count published for every block, the three tests left out
GsvPublishCountAlways(m, new, changed, leaf, value) ==
    PublishTopicR(m, leaf, FL_IGN_DEF_TALKER, FmtInt(value))

\* if (always || gsv->new || value != saved) publish_topicr(<leaf>, ...)
GsvPublishCount(m, new, changed, leaf, value) ==
    IF m.always # 0 \/ new # 0 \/ changed
    THEN PublishTopicR(m, leaf, FL_IGN_DEF_TALKER, FmtInt(value))
    ELSE m

GsvSave(m, gi, nsat) ==
    [m EXCEPT !.gsvs[gi].satview = nsat,
              !.gsvs[gi].sattrack_saved = m.gsvs[gi].sattrack,
              !.gsvs[gi].new = 0]

\* the sums over all talkers, published under gn
GsvTotals(m) ==
    PublishTopicRt(
      PublishTopicRt(m, "gn", "satview", FL_RETAIN + FL_IGN_DEF_TALKER,
                     FmtInt(SumField(m.gsvs, "satview"))),
      "gn", "sattrack", FL_RETAIN + FL_IGN_DEF_TALKER,
      FmtInt(SumField(m.gsvs, "sattrack_saved")))

GsvCounts(m, g, gi, nsat) ==
    GsvSave(
      GsvPublishCount(
        GsvPublishCount(m, g.new, nsat # g.satview, "satview", nsat),
        g.new, g.sattrack # g.sattrack_saved, "sattrack", g.sattrack),
      gi, nsat)

GsvBlockEnd(m, gi, nsat) ==
    GsvTotals(GsvCounts(GsvClearLost(m, m.gsvs[gi].satmin, m.gsvs[gi].satmax),
                        m.gsvs[gi], gi, nsat))

GsvPacket(m, gi, toks, msgcnt, msgidx, nsat) ==
    IF msgidx = msgcnt
    THEN GsvBlockEnd(GsvTuples(IF msgidx = 1 THEN GsvBlockStart(m, gi) ELSE m,
                               gi, toks, 0), gi, nsat)
    ELSE GsvTuples(IF msgidx = 1 THEN GsvBlockStart(m, gi) ELSE m, gi, toks, 0)

GsvFound(f, toks) ==
    GsvPacket(f.m, f.gi, toks, StrToUL(Tok(toks, 2)), StrToUL(Tok(toks, 3)),
              StrToUL(Tok(toks, 4)))

RecvdGsv(m, toks) == GsvFound(FindGsv(m, m.talker), toks)

(***************************************************************************)
(* The other sentence handlers.                                            *)
(***************************************************************************)
GnsTalkers == <<"gp", "gl", "gb", "ga">>
GnsModes == <<"N", "A", "D", "P", "R", "F", "E", "M", "S">>

GnsModeIndex(c) ==
    IF \E i \in 1..Len(GnsModes) : GnsModes[i] = c
    THEN (CHOOSE i \in 1..Len(GnsModes) : GnsModes[i] = c) - 1
    ELSE 0

Upper(c) == IF \E u \in {GnsModes[i] : i \in 1..Len(GnsModes)} : Lower(u) = c
            THEN CHOOSE u \in {GnsModes[i] : i \in 1..Len(GnsModes)} : Lower(u) = c
            ELSE c

RECURSIVE GnsModesFrom(_, _, _)
GnsModesFrom(m, tok, i) ==
    IF i > Len(GnsTalkers) \/ i > Len(tok) THEN m
    ELSE GnsModesFrom(
           PublishTopicRt(m, GnsTalkers[i], "mode", 1,
                          FromTable(StrQuality, GnsModeIndex(Upper(tok[i])))),
           tok, i + 1)

\* GGA: the quality field; GNS: one mode letter per constellation
GgaFix(m, gga, toks) ==
    IF gga
    THEN PublishTopic(m, "quality", FromTable(StrQuality, StrToUL(Tok(toks, 7))))
    ELSE GnsModesFrom(m, Tok(toks, 7), 1)

GgaSatuse(m, satuse) ==
    SatUseUpdated(PublishTopicR(m, "satuse", FL_RETAIN + FL_IGN_DEF_TALKER, FmtInt(satuse)),
                  m.talker, satuse)

\* if (nmea_use_msg("GSA")) publish_topic("hdop", ...)
GgaHdop(m, toks) ==
    IF NmeaUseMsg(m, <<"G", "S", "A">>) # 0
    THEN PublishTopic(m, "hdop", FmtDouble(Tok(toks, 9), 1))
    ELSE m

\* south, west: the hemisphere letters; d: the field of the differential age
GgaFields(m, toks, gga, south, west, d) ==
    PublishTopic(
      PublishTopic(
        PublishTopic(
          PublishTopic(
            GgaHdop(
              GgaSatuse(
                GgaFix(
                  PublishTopic(
                    PublishTopic(m, "lat", FmtDeg(Tok(toks, 3), south)),
                    "lon", FmtDeg(Tok(toks, 5), west)),
                  gga, toks),
                StrToUL(Tok(toks, 8))),
              toks),
            "alt", FmtDouble(Tok(toks, 10), 1)),
          "geoid", FmtDouble(Tok(toks, 12), 1)),
        "diff/age", Str(Tok(toks, d))),
      "diff/id", Str(Tok(toks, d + 1)))

RecvdGgaGns(m, toks) ==
    LET gga == LowerStr(SubSeq(Tok(toks, 1), 3, Len(Tok(toks, 1)))) = <<"g", "g", "a">>
    IN  GgaFields(m, toks, gga,
                  Tok(toks, 4) # <<>> /\ Tok(toks, 4)[1] = "S",
                  Tok(toks, 6) # <<>> /\ Tok(toks, 6)[1] = "W",
                  IF gga THEN 14 ELSE 13)

RecvdGsa(m, toks) ==
    LET ival == StrToUL(Tok(toks, 3))
        pktnr == IF Tok(toks, 19) = <<>> THEN 1 ELSE StrToUL(Tok(toks, 19))
    IN  IF pktnr # 1 THEN m
        ELSE PublishTopic(
               PublishTopic(
                 PublishTopic(
                   PublishTopic(m, "mode", FromTable(StrMode, ival)),
                   "pdop", FmtDouble(Tok(toks, 16), 1)),
                 "hdop", FmtDouble(Tok(toks, 17), 1)),
               "vdop", FmtDouble(Tok(toks, 18), 1))

RecvdVtg(m, toks) ==
    PublishTopic(
      PublishTopic(
        PublishTopic(m, "heading", FmtDouble(Tok(toks, 2), 2)),
        "heading/magnetic", FmtDouble(Tok(toks, 4), 2)),
      "speed", FmtDouble(Tok(toks, 8), 2))

\* days since 1970-01-01 of the first day of month mon (1..12) of year
DaysFromCivil(year, mon) ==
    LET y == IF mon <= 2 THEN year - 1 ELSE year
        era == y \div 400
        yoe == y - era * 400
        doy == (153 * (IF mon > 2 THEN mon - 3 ELSE mon + 9) + 2) \div 5
    IN  era * 146097 + yoe * 365 + yoe \div 4 - yoe \div 100 + doy - 719468

\* timegm(&tm): tm_mon = mon - 1 and the other fields carried over as mktime does
TimeGm(hms, mday, mon, year) ==
    (DaysFromCivil(year + ((mon - 1) \div 12), ((mon - 1) % 12) + 1) + mday - 1) * 86400
        + (hms \div 10000) * 3600 + ((hms \div 100) % 100) * 60 + (hms % 100)

WeekDays == <<"Sun", "Mon", "Tue", "Wed", "Thu", "Fri", "Sat">>
Months ==
    <<"Jan", "Feb", "Mar", "Apr", "May", "Jun", "Jul", "Aug", "Sep", "Oct", "Nov",
      "Dec">>

\* the civil date [y, m, d] of day z since 1970-01-01
CivilFromDays(z) ==
    LET era == (z + 719468) \div 146097
        doe == (z + 719468) - era * 146097
        yoe == (doe - doe \div 1460 + doe \div 36524 - doe \div 146096) \div 365
        doy == doe - (365 * yoe + yoe \div 4 - yoe \div 100)
        mp == (5 * doy + 2) \div 153
        mon == IF mp < 10 THEN mp + 3 ELSE mp - 9
    IN  [y |-> yoe + era * 400 + (IF mon <= 2 THEN 1 ELSE 0), m |-> mon,
         d |-> doy - (153 * mp + 2) \div 5 + 1]

StrfTime(wday, date, secs) ==
    WeekDays[wday + 1] \o " " \o PadNat(date.d, 2) \o " " \o Months[date.m] \o " "
        \o FmtInt(date.y) \o " " \o PadNat(secs \div 3600, 2) \o ":"
        \o PadNat((secs \div 60) % 60, 2) \o ":" \o PadNat(secs % 60, 2)

\* strftime("%a %d %b %Y %H:%M:%S", localtime(&tim)), local time being UTC
ZdaDateTime(tim) ==
    StrfTime(((tim \div 86400) + 4) % 7, CivilFromDays(tim \div 86400), tim % 86400)

\* tim of recvd_zda, for dates from 1970 to 2037
ZdaUtc(toks) ==
    TimeGm(StrToUL(Tok(toks, 2)), StrToUL(Tok(toks, 3)), StrToUL(Tok(toks, 4)),
           StrToUL(Tok(toks, 5)))

ZdaPublish(m, tim) ==
    PublishTopic(PublishTopic(m, "utc", FmtInt(tim)), "datetime", ZdaDateTime(tim))

RecvdZda(m, toks) == ZdaPublish(m, ZdaUtc(toks))

\* recvd_txt only logs, nothing is stored.  level = strtoul(field 3) indexes
\* levels[256]: any other level reads outside the table
RecvdTxt(m, toks) ==
    IF StrToUL(Tok(toks, 4)) < 0 \/ StrToUL(Tok(toks, 4)) > 255 THEN Undefined(m)
    ELSE m

\* the value recvd_line gives in_data_sentence before the handler runs
HandlerScope == 0

Dispatch(m, code, toks) ==
    CASE code = <<"G", "G", "A">> \/ code = <<"G", "N", "S">> -> RecvdGgaGns(m, toks)
      [] code = <<"G", "S", "A">> -> RecvdGsa(m, toks)
      [] code = <<"G", "S", "V">> -> RecvdGsv(m, toks)
      [] code = <<"V", "T", "G">> -> RecvdVtg(m, toks)
      [] code = <<"Z", "D", "A">> -> RecvdZda(m, toks)
      [] OTHER -> m

\* recvd_line with the test of nmea_use_msg left out: every sentence handled
RecvdLineUnblocked(m, line) ==
    IF line.kind # "line" \/ ~line.valid THEN m
    ELSE IF Tok(line.toks, 1) = <<>> THEN Segfault(m)
    ELSE IF Len(Tok(line.toks, 1)) <= 2 THEN m
    ELSE [FlushPendingTopics(
            Dispatch([m EXCEPT !.in_data_sentence = HandlerScope,
                               !.talker = Lower(Tok(line.toks, 1)[1])
                                            \o Lower(Tok(line.toks, 1)[2])],
                     SubSeq(Tok(line.toks, 1), 3, Len(Tok(line.toks, 1))), line.toks))
            EXCEPT !.in_data_sentence = 0]

\* recvd_line(line): line.valid is what nmea_is_valid_sentence found, line.toks
\* its fields; an absent line (a read that completes no line) has kind "none"
RecvdLine(m, line) ==
    IF line.kind # "line" \/ ~line.valid THEN m
    ELSE LET tok == Tok(line.toks, 1)
         IN  IF tok = <<>> THEN Segfault(m)         \* strlen(NULL)
             ELSE IF Len(tok) <= 2 THEN m
             ELSE LET code == SubSeq(tok, 3, Len(tok))
                      m1 == [m EXCEPT !.in_data_sentence = HandlerScope,
                                      !.talker = Lower(tok[1]) \o Lower(tok[2])]
                  IN  IF code = <<"T", "X", "T">>
                      THEN [FlushPendingTopics(RecvdTxt(m1, line.toks))
                              EXCEPT !.in_data_sentence = 0]
                      ELSE IF NmeaUseMsg(m1, code) = 0
                      THEN [m1 EXCEPT !.in_data_sentence = 0]
                      ELSE [FlushPendingTopics(Dispatch(m1, code, line.toks))
                              EXCEPT !.in_data_sentence = 0]

(***************************************************************************)
(* Bytes.  The receiver's data is a sequence of bytes 0..255; a byte of a  *)
(* text line becomes the character of a C string through the ASCII table.  *)
(***************************************************************************)
\* the printable characters, codes 32..126 (code 96 written as its number)
Ascii ==
    <<" ", "!", "\"", "#", "$", "%", "&", "'", "(", ")", "*", "+", ",",
      "-", ".", "/", "0", "1", "2", "3", "4", "5", "6", "7", "8", "9", ":",
      ";", "<", "=", ">", "?", "@", "A", "B", "C", "D", "E", "F", "G", "H",
      "I", "J", "K", "L", "M", "N", "O", "P", "Q", "R", "S", "T", "U", "V",
      "W", "X", "Y", "Z", "[", "\\", "]", "^", "_", "\\96", "a", "b", "c",
      "d", "e", "f", "g", "h", "i", "j", "k", "l", "m", "n", "o", "p", "q",
      "r", "s", "t", "u", "v", "w", "x", "y", "z", "{", "|", "}", "~">>

\* a byte as a character of a C string; a byte outside the table keeps its code
Chr(b) == IF b >= 32 /\ b <= 126 THEN Ascii[b - 31] ELSE "\\" \o FmtInt(b)
Ord(c) == 31 + (CHOOSE i \in 1..Len(Ascii) : Ascii[i] = c)
Chars(bs) == [i \in 1..Len(bs) |-> Chr(bs[i])]
Bytes(cs) == [i \in 1..Len(cs) |-> Ord(cs[i])]

\* my_sum ^= *str on uint8_t
RECURSIVE Xor(_, _)
Xor(a, b) ==
    IF a = 0 THEN b
    ELSE IF b = 0 THEN a
    ELSE ((a + b) % 2) + 2 * Xor(a \div 2, b \div 2)

HexVal(b) ==
    CASE b >= 48 /\ b <= 57 -> b - 48
      [] b >= 65 /\ b <= 70 -> b - 55
      [] b >= 97 /\ b <= 102 -> b - 87
      [] OTHER -> -1

\* strtoul(str, NULL, 16) from byte i on, for a field of hex digits
RECURSIVE StrToULHex(_, _, _)
StrToULHex(bs, i, acc) ==
    IF i > Len(bs) \/ HexVal(bs[i]) < 0 THEN acc
    ELSE StrToULHex(bs, i + 1, 16 * acc + HexVal(bs[i]))

Dollar == 36        \* '$'
Star == 42          \* '*'
Comma == 44         \* ','

\* the least index of a non-empty set of indices
First(S) == CHOOSE j \in S : \A k \in S : j <= k

\* the k-th index of a set of indices, in rising order
Nth(S, k) == CHOOSE j \in S : Cardinality({x \in S : x < j}) = k - 1

\* my_sum ^= *str over the bytes a..b, halves first to keep the evaluation
\* shallow (^ is associative)
RECURSIVE XorRange(_, _, _)
XorRange(bs, a, b) ==
    IF a > b THEN 0
    ELSE IF a = b THEN bs[a]
    ELSE Xor(XorRange(bs, a, (a + b) \div 2), XorRange(bs, ((a + b) \div 2) + 1, b))

\* where the loop of nmea_is_valid_sentence meets the first *, 0 when it
\* meets the end of the line first
StarAt(line) ==
    IF {i \in 2..Len(line) : line[i] = Star} = {} THEN 0
    ELSE First({i \in 2..Len(line) : line[i] = Star})

\* the comparison of my_sum with nmea_sum left out
NmeaSumAtAnySum(line, star) ==
    [ok |-> TRUE, body |-> SubSeq(line, 1, star - 1)]

\* at the *: my_sum against the checksum field, and the line cut at the *
\* (the leading $ still there)
NmeaSumAt(line, star) ==
    [ok |-> XorRange(line, 2, star - 1) = StrToULHex(line, star + 1, 0) % 256,
     body |-> SubSeq(line, 1, star - 1)]

NmeaIsValidSentence(line) ==
    IF line = <<>> \/ line[1] # Dollar \/ StarAt(line) = 0
    THEN [ok |-> FALSE, body |-> <<>>]
    ELSE NmeaSumAt(line, StarAt(line))

\* the fields nmea_tok hands out: the bytes between the commas
Commas(bs) == {i \in 1..Len(bs) : bs[i] = Comma}

NmeaField(bs, k) ==
    Chars(SubSeq(bs,
                 IF k = 1 THEN 1 ELSE Nth(Commas(bs), k - 1) + 1,
                 IF k > Cardinality(Commas(bs)) THEN Len(bs)
                 ELSE Nth(Commas(bs), k) - 1))

NmeaFields(bs) == [k \in 1..(Cardinality(Commas(bs)) + 1) |-> NmeaField(bs, k)]

\* nmea_tok(line) omits the leading $
NmeaTok(body) ==
    NmeaFields(IF body # <<>> /\ body[1] = Dollar THEN Tail(body) ELSE body)

\* a line of bytes as recvd_line sees it: the verdict of
\* nmea_is_valid_sentence and the fields of the accepted sentence
LexOf(v) ==
    [kind |-> "line", valid |-> v.ok, toks |-> IF v.ok THEN NmeaTok(v.body) ELSE <<>>]

Lex(line) == LexOf(NmeaIsValidSentence(line))

(***************************************************************************)
(* recvd_data: the multiplexer of text lines and u-blox frames.            *)
(***************************************************************************)
UbxSync1 == 181     \* 0xb5
UbxSync2 == 98      \* 0x62
UbxOverhead == 8    \* sync, class, id, length and checksum bytes of a frame
Newline == 10       \* '\n'
Return == 13        \* '\r'

\* buf[i - 1]; the byte behind the data is the terminating NUL
ByteAt(data, i) == IF i >= 1 /\ i <= Len(data) THEN data[i] ELSE 0

\* v16 = buf[bufpos+4]: a char (signed on the build modelled) into a uint16_t
FrameLen(b) == IF b < 128 THEN b ELSE 65280 + b

\* strchr(buf+bufpos, '\n'): the index of the first newline from i on, 0 when
\* the string ends (a NUL byte or the end of the data) before one
StrEnds(data, i) == {j \in i..Len(data) : data[j] = Newline \/ data[j] = 0}

StrChrNewline(data, i) ==
    IF StrEnds(data, i) = {} THEN 0
    ELSE IF data[First(StrEnds(data, i))] = Newline THEN First(StrEnds(data, i))
    ELSE 0

NoItem == [kind |-> "none", bytes |-> <<>>, next |-> 0]

\* the text line that ends with the newline at index nl: a \r before it is cut
LineItem(data, pos, nl) ==
    IF nl = 0 THEN NoItem
    ELSE [kind |-> "line",
          bytes |-> SubSeq(data, pos + 1,
                           IF nl > pos + 1 /\ data[nl - 1] = Return
                           THEN nl - 2 ELSE nl - 1),
          next |-> nl]

FrameItem(data, pos, need) ==
    IF Len(data) - pos < need THEN NoItem
    ELSE [kind |-> "frame", bytes |-> SubSeq(data, pos + 1, pos + need),
          next |-> pos + need]

\* one turn of the loop of recvd_data at bufpos = pos
NextItem(data, pos) ==
    IF ByteAt(data, pos + 1) = UbxSync1 /\ ByteAt(data, pos + 2) = UbxSync2
    THEN IF Len(data) - pos < UbxOverhead THEN NoItem
         ELSE FrameItem(data, pos, FrameLen(data[pos + 5]) + UbxOverhead)
    ELSE LineItem(data, pos, StrChrNewline(data, pos + 1))

\* ublox_crc over the bytes a..b: cka is their sum, ckb the sum of the values
\* cka took, i.e. of every byte times the number of bytes from it to b; both
\* summed halves first to keep the evaluation shallow
RECURSIVE SumRange(_, _, _)
SumRange(dat, a, b) ==
    IF a > b THEN 0
    ELSE IF a = b THEN dat[a]
    ELSE (SumRange(dat, a, (a + b) \div 2) + SumRange(dat, ((a + b) \div 2) + 1, b)) % 256

RECURSIVE RunningSumRange(_, _, _, _)
RunningSumRange(dat, a, b, last) ==
    IF a > b THEN 0
    ELSE IF a = b THEN (dat[a] * (last - a + 1)) % 256
    ELSE (RunningSumRange(dat, a, (a + b) \div 2, last)
            + RunningSumRange(dat, ((a + b) \div 2) + 1, b, last)) % 256

UbloxCrc(dat, a, b) == SumRange(dat, a, b) * 256 + RunningSumRange(dat, a, b, b)

\* recvd_ublox_frame compares the checksum and logs; no state of the program
\* depends on the frame
RecvdUbloxFrame(m, frame) ==
    IF UbloxCrc(frame, 3, Len(frame) - 2)
          # frame[Len(frame) - 1] * 256 + frame[Len(frame)]
    THEN m ELSE m

Handed(m, it) ==
    [m EXCEPT !.bufpos = it.next,
              !.handed = Append(@, [kind |-> it.kind, bytes |-> it.bytes])]

\* the loop of recvd_data from m.bufpos on
RECURSIVE ParseData(_)
RECURSIVE ParseItem(_, _)
ParseItem(m, it) ==
    CASE it.kind = "none" -> m
      [] it.kind = "frame" -> ParseData(RecvdUbloxFrame(Handed(m, it), it.bytes))
      [] OTHER -> ParseData(RecvdLine(Handed(m, it), Lex(it.bytes)))

ParseData(m) == ParseItem(m, NextItem(m.buf, m.bufpos))

\* if (buflen + len + 1 > bufsize) { bufsize = ...; buf = realloc(buf, bufsize); }
GrowBuf(m, len) ==
    IF Len(m.buf) + len + 1 > m.bufsize
    THEN [m EXCEPT !.bufsize = 1024 * ((Len(m.buf) + len + 1 + 1023) \div 1024)]
    ELSE m

\* byte i (0-based) of the destination after memcpy(buf, buf+bufpos, n) done
\* from the last byte to the first: a source byte that lies in the destination
\* has been overwritten before it is read
RECURSIVE CopiedBackward(_, _, _, _)
CopiedBackward(data, bufpos, n, i) ==
    IF i + bufpos < n THEN CopiedBackward(data, bufpos, n, i + bufpos)
    ELSE ByteAt(data, bufpos + i + 1)

\* if (bufpos) memcpy(buf, buf+bufpos, buflen-bufpos+1); buflen -= bufpos.
\* Source and destination overlap when buflen-bufpos+1 > bufpos: the result
\* is then what the memcpy of the build makes of it, order being the direction
\* in which it moves the bytes
ForgetConsumed(m, order) ==
    IF m.bufpos = 0 THEN m
    ELSE IF Len(m.buf) - m.bufpos + 1 > m.bufpos /\ order = "backward"
    THEN [m EXCEPT !.buf = [i \in 1..(Len(m.buf) - m.bufpos) |->
                              CopiedBackward(m.buf, m.bufpos,
                                             Len(m.buf) - m.bufpos + 1, i - 1)]]
    ELSE [m EXCEPT !.buf = SubSeq(m.buf, m.bufpos + 1, Len(m.buf))]

\* recvd_data(line, len)
RecvdData(m, chunk, order) ==
    ForgetConsumed(
      ParseData([GrowBuf(m, Len(chunk)) EXCEPT !.buf = @ \o chunk, !.bufpos = 0]),
      order)

(***************************************************************************)
(* The inputs: lines read from the receiver, options, inbound messages.    *)
(***************************************************************************)
\* GPGGA,123519,4807.038,N,01131.000,E,1,08,0.9,545.4,M,46.9,M,,
LineGga1 ==
    <<<<"G", "P", "G", "G", "A">>,
      <<"1", "2", "3", "5", "1", "9">>,
      <<"4", "8", "0", "7", ".", "0", "3", "8">>,
      <<"N">>,
      <<"0", "1", "1", "3", "1", ".", "0", "0", "0">>,
      <<"E">>,
      <<"1">>,
      <<"0", "8">>,
      <<"0", ".", "9">>,
      <<"5", "4", "5", ".", "4">>,
      <<"M">>,
      <<"4", "6", ".", "9">>,
      <<"M">>,
      <<>>,
      <<>>>>

\* GPGGA,123520,4830.000,N,01131.000,E,2,09,0.9,545.4,M,46.9,M,,
LineGga2 ==
    <<<<"G", "P", "G", "G", "A">>,
      <<"1", "2", "3", "5", "2", "0">>,
      <<"4", "8", "3", "0", ".", "0", "0", "0">>,
      <<"N">>,
      <<"0", "1", "1", "3", "1", ".", "0", "0", "0">>,
      <<"E">>,
      <<"2">>,
      <<"0", "9">>,
      <<"0", ".", "9">>,
      <<"5", "4", "5", ".", "4">>,
      <<"M">>,
      <<"4", "6", ".", "9">>,
      <<"M">>,
      <<>>,
      <<>>>>

\* GLGGA,123519,4807.038,N,01131.000,E,1,08,0.9,545.4,M,46.9,M,,
LineGgaGl ==
    <<<<"G", "L", "G", "G", "A">>,
      <<"1", "2", "3", "5", "1", "9">>,
      <<"4", "8", "0", "7", ".", "0", "3", "8">>,
      <<"N">>,
      <<"0", "1", "1", "3", "1", ".", "0", "0", "0">>,
      <<"E">>,
      <<"1">>,
      <<"0", "8">>,
      <<"0", ".", "9">>,
      <<"5", "4", "5", ".", "4">>,
      <<"M">>,
      <<"4", "6", ".", "9">>,
      <<"M">>,
      <<>>,
      <<>>>>

\* GPGSV,2,1,3,1,40,083,46,2,17,308,41
LineGsvA ==
    <<<<"G", "P", "G", "S", "V">>,
      <<"2">>,
      <<"1">>,
      <<"3">>,
      <<"1">>,
      <<"4", "0">>,
      <<"0", "8", "3">>,
      <<"4", "6">>,
      <<"2">>,
      <<"1", "7">>,
      <<"3", "0", "8">>,
      <<"4", "1">>>>

\* GPGSV,2,2,3,3,07,344,39
LineGsvB ==
    <<<<"G", "P", "G", "S", "V">>,
      <<"2">>,
      <<"2">>,
      <<"3">>,
      <<"3">>,
      <<"0", "7">>,
      <<"3", "4", "4">>,
      <<"3", "9">>>>

\* GLGSV,1,1,1,2,10,100,30
LineGsvGl ==
    <<<<"G", "L", "G", "S", "V">>,
      <<"1">>,
      <<"1">>,
      <<"1">>,
      <<"2">>,
      <<"1", "0">>,
      <<"1", "0", "0">>,
      <<"3", "0">>>>

\* GPTXT,01,01,02,hello
LineTxt ==
    <<<<"G", "P", "T", "X", "T">>,
      <<"0", "1">>,
      <<"0", "1">>,
      <<"0", "2">>,
      <<"h", "e", "l", "l", "o">>>>

\* GPVTG,054.70,T,034.40,M,005.50,N,010.20,K
LineVtg ==
    <<<<"G", "P", "V", "T", "G">>,
      <<"0", "5", "4", ".", "7", "0">>,
      <<"T">>,
      <<"0", "3", "4", ".", "4", "0">>,
      <<"M">>,
      <<"0", "0", "5", ".", "5", "0">>,
      <<"N">>,
      <<"0", "1", "0", ".", "2", "0">>,
      <<"K">>>>

\* GPZDA,160012,11,03,2004,-1,00
LineZda ==
    <<<<"G", "P", "Z", "D", "A">>,
      <<"1", "6", "0", "0", "1", "2">>,
      <<"1", "1">>,
      <<"0", "3">>,
      <<"2", "0", "0", "4">>,
      <<"-", "1">>,
      <<"0", "0">>>>

\* GPGSA,A,3,04,05,,09,12,,,24,,,,,2.5,1.3,2.1
LineGsa ==
    <<<<"G", "P", "G", "S", "A">>,
      <<"A">>,
      <<"3">>,
      <<"0", "4">>,
      <<"0", "5">>,
      <<>>,
      <<"0", "9">>,
      <<"1", "2">>,
      <<>>,
      <<>>,
      <<"2", "4">>,
      <<>>,
      <<>>,
      <<>>,
      <<>>,
      <<"2", ".", "5">>,
      <<"1", ".", "3">>,
      <<"2", ".", "1">>>>

\* GNGNS,123519,4807.038,N,01131.000,E,AN,08,0.9,545.4,46.9,,
LineGns ==
    <<<<"G", "N", "G", "N", "S">>,
      <<"1", "2", "3", "5", "1", "9">>,
      <<"4", "8", "0", "7", ".", "0", "3", "8">>,
      <<"N">>,
      <<"0", "1", "1", "3", "1", ".", "0", "0", "0">>,
      <<"E">>,
      <<"A", "N">>,
      <<"0", "8">>,
      <<"0", ".", "9">>,
      <<"5", "4", "5", ".", "4">>,
      <<"4", "6", ".", "9">>,
      <<>>,
      <<>>>>


(***************************************************************************)
(* The receiver's side of the byte stream: a sentence as it is sent,       *)
(* $<fields joined by commas>*<checksum in two hex digits>\r\n.            *)
(***************************************************************************)
RECURSIVE JoinFields(_)
JoinFields(toks) ==
    IF toks = <<>> THEN <<>>
    ELSE IF Len(toks) = 1 THEN Bytes(toks[1])
    ELSE Bytes(toks[1]) \o <<Comma>> \o JoinFields(Tail(toks))

XorAll(bs) == XorRange(bs, 1, Len(bs))

HexDigit(n) == IF n < 10 THEN 48 + n ELSE 55 + n

Checksum(body) == <<HexDigit(XorAll(body) \div 16), HexDigit(XorAll(body) % 16)>>

Terminated(line) == line \o <<Return, Newline>>

Sentence(toks) ==
    Terminated(<<Dollar>> \o JoinFields(toks) \o <<Star>> \o Checksum(JoinFields(toks)))

OkLine(toks) == [kind |-> "line", valid |-> TRUE, toks |-> toks]
\* a line nmea_is_valid_sentence rejects (no $, no *, bad sum)
BadLine == [kind |-> "line", valid |-> FALSE, toks |-> <<>>]
\* bytes that complete no line
NoLine == [kind |-> "none", valid |-> FALSE, toks |-> <<>>]

Msg(topic, payload) == [topic |-> topic, payload |-> payload]
NoMsg == Msg(<<>>, <<>>)
CfgTopic(leaf) == TopicPrefix \o CfgPrefix \o leaf

CfgMsgs(payload) == Msg(CfgTopic(<<"m", "s", "g", "s">>), payload)
CfgAlways(payload) == Msg(CfgTopic(<<"a", "l", "w", "a", "y", "s">>), payload)
CfgDeadtime(payload) == Msg(CfgTopic(<<"d", "e", "a", "d", "t", "i", "m", "e">>), payload)
CfgDefault(payload) == Msg(CfgTopic(<<"d", "e", "f", "a", "u", "l", "t">>), payload)

\* <pid>-<time>-<rand>
Token == <<"7", "-", "1", "-", "3">>
SrcFile == "<stdin>"

(***************************************************************************)
(* my_mqtt_msg.                                                            *)
(***************************************************************************)
IsSelfSync(m, msg) ==
    /\ StrCmpEq(msg.topic, SelfSyncTopic)
    /\ StrNCmpEq(IF m.myuuid = NullStr THEN <<>> ELSE m.myuuid, msg.payload,
                 Len(msg.payload))

HasPrefix(cs, pre) == Len(cs) >= Len(pre) /\ SubSeq(cs, 1, Len(pre)) = pre

\* the cfg/msgs branch with clear_gsvs called whatever the state of GSV
CfgMsgsChangedClearAlways(m, payload) ==
    IF payload = <<>> THEN m
    ELSE LET r == MergeNmeaUse(m.nmea_use, payload)
         IN  ClearGsvs([(IF r.oob THEN Undefined(m) ELSE m) EXCEPT !.nmea_use = r.tab])

CfgMsgsChanged(m, payload) ==
    IF payload = <<>> THEN m
    ELSE LET gsv == NmeaUseMsg(m, <<"g", "s", "v">>)
             r == MergeNmeaUse(m.nmea_use, payload)
             m1 == [(IF r.oob THEN Undefined(m) ELSE m) EXCEPT !.nmea_use = r.tab]
         IN  IF gsv # 0 /\ NmeaUseMsg(m1, <<"g", "s", "v">>) = 0
             THEN ClearGsvs(m1) ELSE m1

MyMqttMsg(m, msg) ==
    LET m1 == IF IsSelfSync(m, msg) THEN [m EXCEPT !.ready = 1] ELSE m
        stopic == SubSeq(msg.topic, Len(TopicPrefix) + Len(CfgPrefix) + 1, Len(msg.topic))
    IN  IF ~HasPrefix(msg.topic, TopicPrefix \o CfgPrefix) THEN m1
        ELSE CASE stopic = <<"m", "s", "g", "s">> -> CfgMsgsChanged(m1, msg.payload)
               [] stopic = <<"a", "l", "w", "a", "y", "s">> ->
                    [m1 EXCEPT !.always = StrToUL(msg.payload)]
               [] stopic = <<"d", "e", "a", "d", "t", "i", "m", "e">> ->
                    [m1 EXCEPT !.deaddelay =
                        IF msg.payload = <<>> THEN 10 ELSE StrToUL(msg.payload)]
               [] stopic = <<"d", "e", "f", "a", "u", "l", "t">> ->
                    [m1 EXCEPT !.def_talker_mqtt =
                        IF msg.payload = <<>> THEN NullStr ELSE Str(msg.payload)]
               [] OTHER -> m1

(***************************************************************************)
(* main(): option parsing, the poll loop and the shutdown sequence.        *)
(***************************************************************************)
Evt(kind, line, msg) ==
    [kind |-> kind, line |-> line, msg |-> msg, was |-> portalive,
     gsv0 |-> NmeaUseMsgIn(nmea_use, <<"g", "s", "v">>), alw |-> always]

Init ==
    /\ pc = "args"
    /\ sigterm = 0
    /\ ready = 0
    /\ nmea_use = NmeaUseDefault
    /\ def_talker = "gp"
    /\ def_talker_mqtt = NullStr
    /\ always = 0
    /\ deaddelay = 10
    /\ portalive = -1
    /\ talker = ""
    /\ topics = <<>>
    /\ ndirty = 0
    /\ in_data_sentence = 0
    /\ sats = <<>>
    /\ ssats = 0
    /\ gsvs = <<>>
    /\ sgsvs = 0
    /\ heap = [sats |-> "null", gsvs |-> "null"]
    /\ gn_satuse_emitted = 0
    /\ myuuid = NullStr
    /\ alarm = 0
    /\ buf = <<>>
    /\ bufsize = 0
    /\ fed = <<>>
    /\ handed = <<>>
    /\ broker = <<>>
    /\ ev = <<>>
    /\ lastEvt = [kind |-> "init", line |-> NoLine, msg |-> NoMsg, was |-> -1,
                  gsv0 |-> 0, alw |-> 0]

\* case 'n': merge_nmea_use(optarg)
OptN(arg) ==
    /\ pc = "args"
    /\ LET m == Cur
           r == MergeNmeaUse(m.nmea_use, arg)
       IN  Commit([(IF r.oob THEN Undefined(m) ELSE m) EXCEPT !.nmea_use = r.tab],
                    Evt("optn", NoLine, Msg(<<>>, arg)))

\* case 'a': always = 1
OptA ==
    /\ pc = "args"
    /\ Commit([Cur EXCEPT !.always = 1], Evt("opta", NoLine, NoMsg))

\* case 'D': def_talker = optarg
OptD(tk) ==
    /\ pc = "args"
    /\ Commit([Cur EXCEPT !.def_talker = tk], Evt("optd", NoLine, NoMsg))

\* the connect, alarm(deaddelay) and the publish of src before the loop
Start ==
    /\ pc = "args"
    /\ LET m == [Cur EXCEPT !.pc = "poll", !.alarm = deaddelay]
       IN  Commit(PublishTopicRt(m, NullStr, "src", 1, SrcFile),
                  Evt("start", NoLine, NoMsg))

\* the alive block of the read branch with the test (portalive < 1) left out
AliveOnEveryRead(m) ==
    [FlushPendingTopics(PublishTopicRt(m, NullStr, "alive", 1, "1"))
       EXCEPT !.portalive = 1]

\* if (portalive < 1) { publish alive=1; flush; portalive = 1; }
AliveOnRead(m) ==
    IF m.portalive < 1
    THEN [FlushPendingTopics(PublishTopicRt(m, NullStr, "alive", 1, "1"))
            EXCEPT !.portalive = 1]
    ELSE m

\* pf[0].revents with read() > 0; the bytes complete the line (or none)
ReadInput(line) ==
    /\ pc = "poll" /\ sigterm = 0
    /\ LET m == [Cur EXCEPT !.alarm = deaddelay]
       IN  Commit(RecvdLine(AliveOnRead(m), line), Evt("read", line, NoMsg))

\* the read of a chunk of bytes, as lastEvt records it
DataRead(chunk) == [kind |-> "data", valid |-> FALSE, toks |-> chunk]

\* pf[0].revents with read() > 0, the bytes read handed to recvd_data
ReadData(chunk, order) ==
    /\ pc = "poll" /\ sigterm = 0
    /\ LET m == [Cur EXCEPT !.alarm = deaddelay, !.fed = Append(@, chunk)]
       IN  Commit(RecvdData(AliveOnRead(m), chunk, order),
                  Evt("read", DataRead(chunk), NoMsg))

\* read() = 0 with the alive block run before the break
ReadEofAlive ==
    /\ pc = "poll" /\ sigterm = 0
    /\ Commit([AliveOnRead([Cur EXCEPT !.alarm = deaddelay]) EXCEPT !.pc = "break"],
              Evt("eof", NoLine, NoMsg))

\* read() = 0: alarm(deaddelay), break
ReadEof ==
    /\ pc = "poll" /\ sigterm = 0
    /\ Commit([Cur EXCEPT !.alarm = deaddelay, !.pc = "break"],
              Evt("eof", NoLine, NoMsg))

\* pf[1].revents: mosquitto_loop_read delivers one message of the cfg/# subscription
MqttMsg(msg) ==
    /\ pc = "poll" /\ sigterm = 0
    /\ Commit(MyMqttMsg(Cur, msg), Evt("mqtt", NoLine, msg))

\* case SIGALRM
OnAlarm(m) ==
    LET m1 == IF m.portalive # 0
              THEN [FlushPendingTopics(
                      EraseTopics(PublishTopicRt(m, NullStr, "alive", 1, "0"), 0))
                      EXCEPT !.portalive = 0]
              ELSE m
    IN  [m1 EXCEPT !.alarm = m1.deaddelay]

SigAlrm ==
    /\ pc = "poll"
    /\ alarm # 0
    /\ Commit(OnAlarm(Cur), Evt("alrm", NoLine, NoMsg))

\* case SIGTERM, SIGINT
SigTerm ==
    /\ pc = "poll"
    /\ sigterm = 0
    /\ Commit([Cur EXCEPT !.sigterm = 1], Evt("term", NoLine, NoMsg))

\* send_self_sync: the token, subscribe, publish
SendSelfSync(m) ==
    MosqPublish([m EXCEPT !.myuuid = Token], Str(SelfSyncTopic), Str(Token), 0)

\* after the loop: erase_topics(1); clear_gsvs(); send_self_sync(mosq)
Shutdown ==
    /\ (pc = "poll" /\ sigterm = 1) \/ pc = "break"
    /\ LET m == [Cur EXCEPT !.pc = "sync"]
       IN  Commit(SendSelfSync(ClearGsvs(EraseTopics(m, 1))),
                  Evt("shutdown", NoLine, NoMsg))

\* while (!ready) mosquitto_loop(): one delivered message
SyncMsg(msg) ==
    /\ pc = "sync" /\ ready = 0
    /\ Commit(MyMqttMsg(Cur, msg), Evt("sync", NoLine, msg))

\* return 0; my_exit disconnects
Exit ==
    /\ pc = "sync" /\ ready # 0
    /\ Commit([Cur EXCEPT !.pc = "done"], Evt("exit", NoLine, NoMsg))

(***************************************************************************)
(* Spec: the event loop from start to exit, fed with position sentences.   *)
(***************************************************************************)
Lines == {OkLine(LineGga1), OkLine(LineGga2), OkLine(LineTxt), BadLine, NoLine}

PollMsgs == {CfgAlways(<<"1">>), CfgAlways(<<"0">>), CfgDeadtime(<<"5">>)}

SyncMsgs ==
    {Msg(SelfSyncTopic, Token), Msg(SelfSyncTopic, <<>>), Msg(SelfSyncTopic, <<"7">>),
     Msg(SelfSyncTopic, Token \o <<"x">>), Msg(SelfSyncTopic, <<"8", "-", "1", "-", "3">>),
     CfgAlways(<<"1">>)}

Next ==
    \/ OptA
    \/ Start
    \/ \E line \in Lines : ReadInput(line)
    \/ ReadEof
    \/ \E msg \in PollMsgs : MqttMsg(msg)
    \/ SigAlrm
    \/ SigTerm
    \/ Shutdown
    \/ \E msg \in SyncMsgs : SyncMsg(msg)
    \/ Exit

Spec == Init /\ [][Next]_vars

(***************************************************************************)
(* Properties of the event loop (Spec).                                    *)
(***************************************************************************)
AliveTopic == TopicPrefixStr \o "alive"
SrcTopic == TopicPrefixStr \o "src"

Published(topic, payload) ==
    topic \in DOMAIN broker /\ broker[topic].payload = payload

\* C1: at every point where the main loop waits for events, every cache entry
\* with a non-empty payload has that payload as the last publish of its topic
C1_CacheMatchesBroker ==
    pc = "poll" =>
        \A i \in 1..Len(topics) :
            PayloadStr(topics[i].payload) # "" =>
                Published(topics[i].topic, topics[i].payload)

\* C2: a flush entered with ndirty = 0 and always = 0 returns without a single
\* publish: in the calls of every step, such an entry is directly followed by
\* the return of the flush
C2_ZeroFlushSilent ==
    \A i \in 1..Len(ev) :
        (ev[i].op = "flush" /\ ev[i].n = 0 /\ ev[i].a = 0) =>
            (i < Len(ev) /\ ev[i + 1].op = "flushed")

\* a step whose flush was entered clean while the handler had written entries
C2_Witness ==
    \E i \in 2..Len(ev) :
        /\ ev[i].op = "flush" /\ ev[i].n = 0 /\ ev[i].a = 0
        /\ \A j \in 1..(i - 1) : ev[j].op = "cache"
        /\ \E j \in 1..Len(topics) :
              /\ topics[j].topic = ev[1].topic
              /\ PayloadStr(topics[j].payload) # ""
              /\ topics[j].payload = ev[1].payload

DataEntry(it) == it.topic # AliveTopic /\ it.topic # SrcTopic

\* C5: after a timer expiry in a state other than dead, alive=0 is published
\* retained, every data entry is empty in the cache and on the broker, src keeps
\* its payload and the state is dead; an expiry while dead publishes nothing
C5_ExpiryClearsData ==
    lastEvt.kind = "alrm" =>
        IF lastEvt.was # 0
        THEN /\ portalive = 0
             /\ Published(AliveTopic, "0") /\ broker[AliveTopic].retain = 1
             /\ \A i \in 1..Len(topics) :
                   DataEntry(topics[i]) =>
                       /\ PayloadStr(topics[i].payload) = ""
                       /\ Published(topics[i].topic, "")
             /\ \E i \in 1..Len(topics) :
                   topics[i].topic = SrcTopic /\ topics[i].payload = SrcFile
        ELSE \A i \in 1..Len(ev) : ev[i].op # "pub"

EvAliveAt(i) == ev[i].op = "pub" /\ ev[i].topic = AliveTopic

\* C6: a read of input bytes re-arms the timer to deaddelay; when the state was
\* not alive, alive=1 is written, flushed and published retained before anything
\* of the read is parsed and the state becomes alive; when it was alive, the
\* read publishes nothing on alive
C6_ReadRearmsAndRevives ==
    (lastEvt.kind = "read" /\ pc = "poll") =>
        /\ alarm = deaddelay
        /\ portalive = 1
        /\ IF lastEvt.was # 1
           THEN /\ Len(ev) >= 4
                /\ ev[1] = EvCache(AliveTopic, "1")
                /\ ev[2].op = "flush"
                /\ \E k \in 3..Len(ev) - 1 :
                      /\ ev[k] = EvPub(AliveTopic, "1", 1)
                      /\ \A j \in 3..k : ev[j].op = "pub"
                      /\ ev[k + 1] = EvFlushed
                      /\ \A j \in (k + 1)..Len(ev) : ~EvAliveAt(j)
           ELSE \A i \in 1..Len(ev) : ev[i].topic # AliveTopic

\* a sentence read while the state was dead
C6_Witness ==
    /\ lastEvt.kind = "read" /\ lastEvt.was = 0 /\ lastEvt.line.valid
    /\ pc = "poll" /\ portalive = 1 /\ alarm = 5

TokenMsg == Msg(SelfSyncTopic, Token)

\* C7: the shutdown step deletes every non-empty cache entry and publishes
\* the token last; no publish follows the token; the program exits only after
\* the token has come back
C7_ShutdownOrder ==
    [][/\ lastEvt'.kind = "shutdown" =>
            /\ ev'[Len(ev')] = EvPub(Str(SelfSyncTopic), Str(Token), 0)
            /\ \A i \in 1..Len(topics) :
                  PayloadStr(topics[i].payload) # "" =>
                      \E j \in 1..(Len(ev') - 1) : ev'[j] = EvPub(topics[i].topic, "", 1)
       /\ lastEvt'.kind \in {"sync", "exit"} => \A j \in 1..Len(ev') : ev'[j].op # "pub"
       /\ lastEvt'.kind = "exit" => (lastEvt.kind = "sync" /\ lastEvt.msg = TokenMsg)
      ]_vars

\* C8: while waiting at shutdown, ready is set only by a message on the
\* self-sync topic whose payload equals the token
C8_ReadyOnlyByToken ==
    (lastEvt.kind = "sync" /\ ready # 0) => lastEvt.msg = TokenMsg

(***************************************************************************)
(* SpecTalker: position sentences of two talkers under a changing default  *)
(* talker (-D and cfg/default).                                            *)
(***************************************************************************)
TalkerLines == {OkLine(LineGga1), OkLine(LineGga2), OkLine(LineGgaGl)}

TalkerMsgs == {CfgDefault(<<"g", "l">>), CfgDefault(<<>>)}

NextTalker ==
    \/ OptD("gl")
    \/ Start
    \/ \E line \in TalkerLines : ReadInput(line)
    \/ \E msg \in TalkerMsgs : MqttMsg(msg)
    \/ SigAlrm

SpecTalker == Init /\ [][NextTalker]_vars

\* the topics written to the cache in the last step
Cached == {ev[i].topic : i \in {j \in 1..Len(ev) : ev[j].op = "cache"}}

\* the relative topics the GGA handler publishes with publish_topic (FL_RETAIN)
GgaRelTopics == {"lat", "lon", "quality", "alt", "geoid", "diff/age", "diff/id"}

Bare(t) == TopicPrefixStr \o t
Qualified(tk, t) == TopicPrefixStr \o tk \o "/" \o t

GgaRead == lastEvt.kind = "read" /\ lastEvt.line \in TalkerLines /\ pc = "poll"

TrackBounded ==
    /\ \A i \in 1..Len(gsvs) : gsvs[i].sattrack < MaxTrack
    /\ Len(topics) < MaxTopics

ReadTracked(line) == TrackBounded /\ ReadInput(line)

RepeatLines ==
    {OkLine(LineGga1), OkLine(LineGns), OkLine(LineGsa), OkLine(LineVtg),
     OkLine(LineZda), OkLine(LineTxt), OkLine(LineGsvA), OkLine(LineGsvB),
     OkLine(LineGsvGl)}

\* -n +gns,+gsa,+gsv
AllCodes == <<"+", "g", "n", "s", ",", "+", "g", "s", "a", ",", "+", "g", "s", "v">>

NextRepeat ==
    \/ OptN(AllCodes)
    \/ Start
    \/ \E line \in RepeatLines : ReadTracked(line)

SpecRepeat == Init /\ [][NextRepeat]_vars

LineCode(line) == SubSeq(Tok(line.toks, 1), 3, Len(Tok(line.toks, 1)))

LineEnabled(line) ==
    \/ LineCode(line) = <<"T", "X", "T">>
    \/ NmeaUseMsgIn(nmea_use, LineCode(line)) # 0

\* a GSV packet that is not the first of its block (msgidx # 1)
LaterGsvPacket(line) ==
    LineCode(line) = <<"G", "S", "V">> /\ StrToUL(Tok(line.toks, 3)) # 1

CachePayloads ==
    [i \in 1..Len(topics) |-> <<topics[i].topic, PayloadStr(topics[i].payload)>>]

Silent == \A j \in 1..Len(ev) : ev[j].op # "pub"

\* the step ingests, directly after the read of a line, the same line again
RepeatStep ==
    /\ lastEvt.kind = "read" /\ lastEvt'.kind = "read"
    /\ lastEvt'.line = lastEvt.line
    /\ lastEvt.line.kind = "line" /\ lastEvt.line.valid /\ LineEnabled(lastEvt.line)
    /\ always = 0
    /\ pc = "poll" /\ pc' = "poll"

GsvLines == {OkLine(LineGsvA), OkLine(LineGsvB), OkLine(LineGsvGl)}

GsvMsgs ==
    {CfgMsgs(<<"-", "g", "s", "v">>), CfgMsgs(<<"+", "g", "s", "v">>),
     CfgMsgs(<<"-", "v", "t", "g">>)}

NextGsv ==
    \/ OptN(<<"+", "g", "s", "v">>)
    \/ Start
    \/ \E line \in GsvLines : ReadTracked(line)
    \/ \E msg \in GsvMsgs : MqttMsg(msg)

SpecGsv == Init /\ [][NextGsv]_vars

\* the per-talker topics of the tracker for the talkers and PRNs of GsvLines
TrackerTopics ==
    {Qualified(tk, SatTopic(prn, leaf)) :
        tk \in {"gp", "gl"}, prn \in 1..3, leaf \in {"elv", "azm", "snr"}}
    \cup {Qualified(tk, leaf) : tk \in {"gp", "gl"}, leaf \in {"satview", "sattrack"}}

\* C9: a cfg/msgs message that turns GSV from enabled to disabled leaves every
\* satellite, satview and sattrack topic of every talker deleted (last publish
\* empty and retained); any other cfg/msgs message publishes nothing
C9_DisableDeletesAll ==
    (lastEvt.kind = "mqtt" /\ pc = "poll") =>
        IF lastEvt.gsv0 # 0 /\ NmeaUseMsgIn(nmea_use, <<"g", "s", "v">>) = 0
        THEN \A t \in TrackerTopics :
                t \in DOMAIN broker => (broker[t].payload = "" /\ broker[t].retain = 1)
        ELSE Silent

(***************************************************************************)
(* SpecMerge: one -n argument and one cfg/msgs payload, each any list of   *)
(* up to MaxTokens tokens [+|-]CODE over the six codes.                    *)
(***************************************************************************)
CodeNames ==
    {<<"G", "G", "A">>, <<"g", "n", "s">>, <<"G", "S", "A">>, <<"g", "s", "v">>,
     <<"V", "T", "G">>, <<"z", "d", "a">>}

SignedTokens == {s \o c : s \in {<<"+">>, <<"-">>, <<>>}, c \in CodeNames}

TokenLists == UNION {[1..n -> SignedTokens] : n \in 0..MaxTokens}

RECURSIVE Join(_)
Join(toks) ==
    IF toks = <<>> THEN <<>>
    ELSE IF Len(toks) = 1 THEN toks[1]
    ELSE toks[1] \o <<",">> \o Join(Tail(toks))

PayloadOf == [toks \in TokenLists |-> Join(toks)]

MergePayloads == {PayloadOf[toks] : toks \in TokenLists}

\* the single -n option and the single cfg/msgs message of this specification
OptNOnce(arg) == lastEvt.kind = "init" /\ OptN(arg)
CfgMsgsOnce(payload) == lastEvt.kind = "start" /\ MqttMsg(CfgMsgs(payload))

NextMerge ==
    \/ \E arg \in MergePayloads : OptNOnce(arg)
    \/ Start
    \/ \E payload \in MergePayloads : CfgMsgsOnce(payload)

SpecMerge == Init /\ [][NextMerge]_vars

\* the enable map a table stands for, as nmea_use_msg reads it
Codes == {LowerStr(c) : c \in CodeNames}
TableMap(tab) == [c \in Codes |-> NmeaUseMsgIn(tab, c) # 0]

\* the reference update of an enable map
AllOff == [c \in Codes |-> FALSE]
Unsigned(tok) == IF tok[1] \in {"+", "-"} THEN Tail(tok) ELSE tok

RECURSIVE RefApply(_, _)
RefApply(map, toks) ==
    IF toks = <<>> THEN map
    ELSE RefApply([map EXCEPT ![LowerStr(Unsigned(Head(toks)))] = Head(toks)[1] # "-"],
                  Tail(toks))

RefTokens(map, toks) ==
    RefApply(IF toks[1][1] \in {"+", "-"} THEN map ELSE AllOff, toks)

\* as stated: an empty payload changes nothing
RefUpdate(map, toks) == IF toks = <<>> THEN map ELSE RefTokens(map, toks)

\* amended: an empty -n argument is an absolute list without a code
RefUpdateVia(map, toks, opt) ==
    IF toks = <<>> THEN (IF opt THEN AllOff ELSE map) ELSE RefTokens(map, toks)

Merged == lastEvt'.kind \in {"optn", "mqtt"} /\ pc' # "crashed"

\* C10 (as stated): applying a cfg/msgs payload or -n argument built from the
\* six codes leaves the enable map as the reference update does: unchanged by
\* an empty payload, all codes disabled first when the first token has no sign,
\* then each token setting exactly its code
C10_MergeIsReference ==
    [][\A toks \in TokenLists :
          (Merged /\ lastEvt'.msg.payload = PayloadOf[toks]) =>
              TableMap(nmea_use') = RefUpdate(TableMap(nmea_use), toks)]_vars

\* C10 (amended): the same, except that an empty -n argument disables every
\* code; only an empty cfg/msgs payload changes nothing
C10_MergeIsReferenceVia ==
    [][\A toks \in TokenLists :
          (Merged /\ lastEvt'.msg.payload = PayloadOf[toks]) =>
              TableMap(nmea_use') =
                  RefUpdateVia(TableMap(nmea_use), toks, lastEvt'.kind = "optn")]_vars

\* the payload zda,-GGA has arrived on cfg/msgs: only zda is enabled
C10_Witness ==
    /\ lastEvt.kind = "mqtt"
    /\ lastEvt.msg.payload = <<"z", "d", "a", ",", "-", "G", "G", "A">>
    /\ TableMap(nmea_use) = [c \in Codes |-> c = <<"z", "d", "a">>]

(***************************************************************************)
(* SpecSat: GSV blocks of three talkers (gp, gl and the combined talker    *)
(* gn) under cfg/always; gl also reports a PRN that gp reports, with the   *)
(* same elevation, azimuth and SNR.                                        *)
(***************************************************************************)
\* GLGSV,1,1,1,1,40,083,46
LineGsvGlSame ==
    <<<<"G", "L", "G", "S", "V">>,
      <<"1">>,
      <<"1">>,
      <<"1">>,
      <<"1">>,
      <<"4", "0">>,
      <<"0", "8", "3">>,
      <<"4", "6">>>>

\* GNGSV,1,1,00
LineGsvGn ==
    <<<<"G", "N", "G", "S", "V">>,
      <<"1">>,
      <<"1">>,
      <<"0", "0">>>>

SatLines ==
    {OkLine(LineGsvA), OkLine(LineGsvB), OkLine(LineGsvGl), OkLine(LineGsvGlSame),
     OkLine(LineGsvGn)}

SatMsgs == {CfgAlways(<<"1">>), CfgAlways(<<"0">>)}

NextSat ==
    \/ OptN(<<"+", "g", "s", "v">>)
    \/ Start
    \/ \E line \in SatLines : ReadTracked(line)
    \/ \E msg \in SatMsgs : MqttMsg(msg)

SpecSat == Init /\ [][NextSat]_vars

\* the last step handled a GSV packet with GSV enabled
GsvRead ==
    /\ lastEvt.kind = "read" /\ lastEvt.line.kind = "line" /\ lastEvt.line.valid
    /\ LineCode(lastEvt.line) = <<"G", "S", "V">>
    /\ lastEvt.gsv0 # 0
    /\ pc = "poll"

\* the PRNs of the tuples of a GSV packet
LinePrns(line) ==
    {StrToUL(Tok(line.toks, 5 + 4 * j)) :
        j \in {k \in 0..3 : Tok(line.toks, 5 + 4 * k) # <<>>}}

SatValue(leaf, rec) ==
    CASE leaf = "elv" -> FmtInt(rec.elv)
      [] leaf = "azm" -> FmtInt(rec.azm)
      [] OTHER -> IF rec.snr < 0 THEN "" ELSE FmtInt(rec.snr)

\* C11: after a GSV packet of a talker, every satellite of the packet (its
\* record is marked published) has its elevation, azimuth and SNR as the last,
\* retained publish on <talker>/sat/<prn>/{elv,azm,snr}; a satellite topic whose
\* last publish is not empty belongs to a record that is still marked published
C11_PublishedTripleOnBroker ==
    GsvRead =>
        /\ \A prn \in LinePrns(lastEvt.line) : \A leaf \in {"elv", "azm", "snr"} :
              /\ SatAt(Cur, prn).sent = 1
              /\ Published(Qualified(talker, SatTopic(prn, leaf)),
                           SatValue(leaf, SatAt(Cur, prn)))
              /\ broker[Qualified(talker, SatTopic(prn, leaf))].retain = 1
        /\ \A prn \in 1..3 : \A leaf \in {"elv", "azm"} :
              (/\ Qualified(talker, SatTopic(prn, leaf)) \in DOMAIN broker
               /\ broker[Qualified(talker, SatTopic(prn, leaf))].payload # "")
                  => SatAt(Cur, prn).sent = 1

\* the last step handled the last packet of a GSV block (msgidx = msgcnt)
GsvBlockRead ==
    GsvRead /\ StrToUL(Tok(lastEvt.line.toks, 3)) = StrToUL(Tok(lastEvt.line.toks, 2))

CachedPayload(topic, payload) ==
    \E i \in 1..Len(topics) : topics[i].topic = topic /\ topics[i].payload = payload

\* C12: after the last packet of a GSV block has been handled and flushed,
\* gn/satview holds, in the cache and as the last publish, the sum of satview
\* over the tracked talkers, and gn/sattrack the sum of their sattrack_saved
C12_AggregateIsSum ==
    GsvBlockRead =>
        /\ CachedPayload(Qualified("gn", "satview"), FmtInt(SumField(gsvs, "satview")))
        /\ Published(Qualified("gn", "satview"), FmtInt(SumField(gsvs, "satview")))
        /\ CachedPayload(Qualified("gn", "sattrack"),
                         FmtInt(SumField(gsvs, "sattrack_saved")))
        /\ Published(Qualified("gn", "sattrack"),
                     FmtInt(SumField(gsvs, "sattrack_saved")))

\* the number of publishes of the last step on a topic, retained or not
PubCount(topic, retain) ==
    Cardinality({i \in 1..Len(ev) :
                    ev[i].op = "pub" /\ ev[i].topic = topic /\ ev[i].n = retain})

\* the step handles the last packet of a block whose packets all arrived, in
\* order, directly before it (the blocks of SatLines have one or two packets)
CompleteBlock ==
    /\ GsvBlockRead'
    /\ \/ StrToUL(Tok(lastEvt'.line.toks, 2)) = 1
       \/ /\ StrToUL(Tok(lastEvt'.line.toks, 2)) = 2
          /\ GsvRead
          /\ Tok(lastEvt.line.toks, 1) = Tok(lastEvt'.line.toks, 1)
          /\ StrToUL(Tok(lastEvt.line.toks, 2)) = 2
          /\ StrToUL(Tok(lastEvt.line.toks, 3)) = 1

\* C13 (as stated): every complete GSV block produces exactly one satview
\* publish, one sattrack publish and one publish each of gn/satview and
\* gn/sattrack
C13_OneOfEach ==
    [][CompleteBlock =>
          /\ PubCount(Qualified(talker, "satview"), 0)' = 1
          /\ PubCount(Qualified(talker, "sattrack"), 0)' = 1
          /\ PubCount(Qualified("gn", "satview"), 1)' = 1
          /\ PubCount(Qualified("gn", "sattrack"), 1)' = 1]_vars

\* the flush that ended the step was entered with ndirty > 0 or always set
FlushedDirty ==
    \E i \in 1..Len(ev) :
        /\ ev[i].op = "flush" /\ (ev[i].n > 0 \/ ev[i].a # 0)
        /\ \A j \in (i + 1)..Len(ev) : ev[j].op # "flush"

\* the talker's entry of the tracker before the step (a fresh one when absent)
GsvBefore(tk) ==
    IF GsvIndex(gsvs, tk) = 0 THEN NewGsv(tk) ELSE gsvs[GsvIndex(gsvs, tk)]

\* C13 (amended): the last packet of a block publishes satview once when always
\* is set, the block is the talker's first or nsat differs from the talker's
\* stored satview, and not at all otherwise; sattrack likewise against the last
\* emitted sattrack; gn/satview and gn/sattrack once each when the flush of the
\* packet is entered with ndirty > 0 or always set, and not at all otherwise
C13_OnePerChange ==
    [][GsvBlockRead' =>
          /\ PubCount(Qualified(talker, "satview"), 0)' =
                IF \/ always # 0 \/ GsvBefore(talker').new # 0
                   \/ GsvBefore(talker').satview # GsvBefore(talker)'.satview
                THEN 1 ELSE 0
          /\ PubCount(Qualified(talker, "sattrack"), 0)' =
                IF \/ always # 0 \/ GsvBefore(talker').new # 0
                   \/ GsvBefore(talker').sattrack_saved # GsvBefore(talker)'.sattrack
                THEN 1 ELSE 0
          /\ PubCount(Qualified("gn", "satview"), 1)' = IF FlushedDirty' THEN 1 ELSE 0
          /\ PubCount(Qualified("gn", "sattrack"), 1)' = IF FlushedDirty' THEN 1 ELSE 0
      ]_vars

\* a complete block of talker gl, arrived again unchanged: nothing is published
C13_Witness ==
    /\ GsvBlockRead /\ lastEvt.line = OkLine(LineGsvGl) /\ always = 0
    /\ Silent
    /\ \E i \in 1..Len(gsvs) : gsvs[i].talker = "gl" /\ gsvs[i].satview = 1

(***************************************************************************)
(* SpecFramer: a stream of text lines and u-blox frames that reaches       *)
(* recvd_data in chunks cut at any of several places.  The reads stop      *)
(* after MaxReads chunks.                                                  *)
(***************************************************************************)
MaxReads == 4

\* b5 62 01 02 02 00 0a 24 <cka> <ckb>: class 1, id 2, two bytes of payload
\* (a newline and a $)
UbxBody == <<1, 2, 2, 0, Newline, Dollar>>
UbxFrame ==
    <<UbxSync1, UbxSync2>> \o UbxBody
        \o <<UbloxCrc(UbxBody, 1, Len(UbxBody)) \div 256,
             UbloxCrc(UbxBody, 1, Len(UbxBody)) % 256>>

TxtBytes == Sentence(LineTxt)
VtgBytes == Sentence(LineVtg)

\* whole lines and frames, and a TXT line, a VTG line and a frame cut in two:
\* the second chunk of the TXT line also holds the first 30 bytes of the VTG line
FramerChunks ==
    {TxtBytes, UbxFrame,
     SubSeq(TxtBytes, 1, 10),
     SubSeq(TxtBytes, 11, Len(TxtBytes)) \o SubSeq(VtgBytes, 1, 30),
     SubSeq(VtgBytes, 31, Len(VtgBytes)),
     SubSeq(UbxFrame, 1, 3), SubSeq(UbxFrame, 4, Len(UbxFrame))}

CopyOrders == {"forward", "backward"}

ReadBounded(chunk, order) == Len(fed) < MaxReads /\ ReadData(chunk, order)

NextFramer ==
    \/ Start
    \/ \E chunk \in FramerChunks : \E order \in CopyOrders : ReadBounded(chunk, order)

SpecFramer == Init /\ [][NextFramer]_vars

\* the bytes read so far, the chunks one after the other
RECURSIVE Concat(_)
Concat(chunks) == IF chunks = <<>> THEN <<>> ELSE chunks[1] \o Concat(Tail(chunks))

\* the lines and frames of a stream that recvd_data receives in one chunk
RECURSIVE ItemsFrom(_, _)
ItemsFrom(data, pos) ==
    IF NextItem(data, pos).kind = "none" THEN <<>>
    ELSE <<[kind |-> NextItem(data, pos).kind, bytes |-> NextItem(data, pos).bytes]>>
            \o ItemsFrom(data, NextItem(data, pos).next)

CutLine(bs) == [kind |-> "line", bytes |-> SubSeq(bs, 1, Len(bs) - 2)]

\* C14: however the stream was cut into chunks, the lines and frames handed on
\* are those of the stream received in one chunk; a frame directly between
\* two lines is handed on as line, frame, line
C14_ChunkingInvariant ==
    pc = "poll" =>
        /\ handed = ItemsFrom(Concat(fed), 0)
        /\ Concat(fed) = TxtBytes \o UbxFrame \o TxtBytes =>
              handed = <<CutLine(TxtBytes), [kind |-> "frame", bytes |-> UbxFrame],
                         CutLine(TxtBytes)>>

(***************************************************************************)
(* SpecLex: whole lines, sound ones and ones with a protocol error, read   *)
(* as bytes.                                                               *)
(***************************************************************************)
GgaBytes == Sentence(LineGga1)
Gga2Bytes == Sentence(LineGga2)

\* the last digit of the checksum replaced by another one
BadSum(line) == [line EXCEPT ![Len(line) - 2] = IF @ = 48 THEN 49 ELSE 48]
\* the * and the checksum left out
NoStar(line) == Terminated(SubSeq(line, 1, Len(line) - 5))
\* the leading $ left out
NoDollar(line) == Tail(line)

RejectedLines == {BadSum(Gga2Bytes), NoStar(Gga2Bytes), NoDollar(Gga2Bytes)}

\* $*00: the first field is empty
EmptyFirstField == Sentence(<<>>)
\* $GP,1*..: a first field of two characters
ShortFirstField == Sentence(<<<<"G", "P">>, <<"1">>>>)
\* a GGA sentence all of whose fields are empty
LineGgaEmpty == <<<<"G", "P", "G", "G", "A">>>> \o [i \in 1..14 |-> <<>>]
\* a TXT sentence of level 300
LineTxt300 == <<<<"G", "P", "T", "X", "T">>, <<"0", "1">>, <<"0", "1">>, <<"3", "0", "0">>, <<"h", "i">>>>

LexLines ==
    RejectedLines \cup
        {GgaBytes, TxtBytes, EmptyFirstField, ShortFirstField,
         Sentence(LineGgaEmpty), Sentence(LineTxt300)}

NextLex ==
    \/ Start
    \/ \E chunk \in LexLines : \E order \in CopyOrders : ReadBounded(chunk, order)

SpecLex == Init /\ [][NextLex]_vars

\* C15: no input line makes the program abort or reach an undefined state:
\* after every read the main loop is still polling
C15_NeverAborts == pc # "crashed"

\* the step is the read of a line that nmea_is_valid_sentence rejects
RejectedRead == lastEvt'.kind = "read" /\ lastEvt'.line \in {DataRead(l) : l \in RejectedLines}

\* C16: a line with a bad checksum, without * or without leading $ causes no
\* publish and leaves cache, talker, tracker, configuration and liveness as
\* they were (a read that finds the port not alive first marks it alive, as
\* every read does)
C16_RejectedLineNoEffect ==
    [][RejectedRead =>
          /\ pc' = "poll"
          /\ topics' = AliveOnRead(Cur).topics /\ ndirty' = AliveOnRead(Cur).ndirty
          /\ broker' = AliveOnRead(Cur).broker /\ ev' = AliveOnRead(Cur).ev
          /\ portalive' = AliveOnRead(Cur).portalive
          /\ portalive = 1 =>
                /\ ev' = <<>>
                /\ UNCHANGED <<topics, ndirty, broker, portalive>>
          /\ UNCHANGED <<talker, in_data_sentence, sats, ssats, gsvs, sgsvs, heap,
                         gn_satuse_emitted, nmea_use, always, deaddelay,
                         def_talker, def_talker_mqtt>>]_vars

C16_Witness ==
    /\ pc = "poll" /\ lastEvt.kind = "read" /\ lastEvt.was = 1
    /\ lastEvt.line = DataRead(BadSum(Gga2Bytes))
    /\ Len(topics) > 2 /\ ev = <<>>

(***************************************************************************)
(* SpecUse: sentences of enabled and of disabled codes, with cfg/msgs      *)
(* messages that change nmea_use between them.                             *)
(***************************************************************************)
UseLines ==
    {OkLine(LineGga1), OkLine(LineGga2), OkLine(LineGsa), OkLine(LineGsvGl),
     OkLine(LineTxt)}

UseMsgs ==
    {CfgMsgs(<<"-", "g", "g", "a">>), CfgMsgs(<<"+", "g", "g", "a">>),
     CfgMsgs(<<"+", "g", "s", "a">>), CfgMsgs(<<"-", "g", "s", "v">>),
     CfgAlways(<<"1">>)}

NextUse ==
    \/ OptN(<<"+", "g", "s", "v">>)
    \/ Start
    \/ \E line \in UseLines : ReadTracked(line)
    \/ \E msg \in UseMsgs : MqttMsg(msg)

SpecUse == Init /\ [][NextUse]_vars

\* the step is the read of a valid sentence with a first field of 3 or more
\* characters
SentenceRead ==
    /\ lastEvt'.kind = "read" /\ lastEvt'.line.kind = "line" /\ lastEvt'.line.valid
    /\ Len(Tok(lastEvt'.line.toks, 1)) > 2
    /\ pc' = "poll"

\* nmea_use_msg(code) when the step begins
EnabledAtRead == NmeaUseMsg(Cur, LineCode(lastEvt'.line)) # 0

IsTxt(line) == LineCode(line) = <<"T", "X", "T">>

\* the calls the sentence made, after those of the alive block of the read
CallsOfSentence == SubSeq(ev', Len(AliveOnRead(Cur).ev) + 1, Len(ev'))

\* the sentence was dropped before any handler: no call, and cache, broker
\* and tracker as the alive block of the read left them
Blocked ==
    /\ CallsOfSentence = <<>>
    /\ topics' = AliveOnRead(Cur).topics /\ ndirty' = AliveOnRead(Cur).ndirty
    /\ broker' = AliveOnRead(Cur).broker
    /\ UNCHANGED <<sats, ssats, gsvs, sgsvs, heap, gn_satuse_emitted>>

\* the sentence got its handler: the flush behind the handler was called
Handled == \E j \in 1..Len(CallsOfSentence) : CallsOfSentence[j].op = "flush"

NoCall(calls, op) == \A j \in 1..Len(calls) : calls[j].op # op

\* C17: a sentence of a disabled code is blocked; a sentence is handled
\* exactly when it is TXT or its code is enabled at the moment it is received;
\* a TXT sentence stores nothing and causes no publish
C17_DisabledBlockedTxtSilent ==
    [][SentenceRead =>
          /\ (~IsTxt(lastEvt'.line) /\ ~EnabledAtRead) => Blocked
          /\ Handled <=> (IsTxt(lastEvt'.line) \/ EnabledAtRead)
          /\ IsTxt(lastEvt'.line) =>
                /\ NoCall(CallsOfSentence, "pub") /\ NoCall(CallsOfSentence, "cache")
                /\ broker' = AliveOnRead(Cur).broker]_vars

\* a GGA sentence with new values was read while GGA was disabled by a
\* cfg/msgs message, after an earlier GGA sentence had filled the cache
C17_Witness ==
    /\ pc = "poll" /\ lastEvt.kind = "read" /\ lastEvt.line = OkLine(LineGga2)
    /\ NmeaUseMsg(Cur, <<"G", "G", "A">>) = 0
    /\ Len(topics) > 2 /\ ev = <<>>

\* the step is the read of a GGA or GNS sentence that gets its handler
GgaHandled ==
    /\ SentenceRead /\ EnabledAtRead
    /\ LineCode(lastEvt'.line) \in {<<"G", "G", "A">>, <<"G", "N", "S">>}

\* the handler wrote the hdop topic of the default talker
WritesHdop ==
    \E j \in 1..Len(CallsOfSentence) :
        CallsOfSentence[j].op = "cache" /\ CallsOfSentence[j].topic = "gps/hdop"

\* C18: the GGA/GNS handler writes hdop if and only if GSA is not enabled
C18_GgaHdopIffNoGsa ==
    [][GgaHandled => (WritesHdop <=> NmeaUseMsg(Cur, <<"G", "S", "A">>) = 0)]_vars

\* the position in calls of the return of the flush entered at calls[j]
FlushReturn(calls, j) == First({k \in (j + 1)..Len(calls) : calls[k].op = "flushed"})

\* the calls made between the entry of the flush at calls[j] and its return
CallsOfFlush(calls, j) == SubSeq(calls, j + 1, FlushReturn(calls, j) - 1)

\* one retained publish for every entry written at the entry f of a flush, in
\* the order of the list, if the flush was entered with ndirty > 0 or always
DuePublishes(f) ==
    IF f.n # 0 \/ f.a # 0
    THEN [i \in 1..Len(f.w) |-> EvPub(f.w[i].topic, PayloadStr(f.w[i].payload), 1)]
    ELSE <<>>

\* C19: a flush entered with ndirty > 0 or always publishes, retained, exactly
\* the written entries, each once, in insertion order, changed or not; after a
\* flush no entry is written and ndirty is 0
C19_FlushPublishesWritten ==
    pc # "crashed" =>
        /\ \A j \in 1..Len(ev) :
              ev[j].op = "flush" => CallsOfFlush(ev, j) = DuePublishes(ev[j])
        /\ (ev # <<>> /\ ev[Len(ev)].op = "flushed") =>
              /\ ndirty = 0
              /\ \A i \in 1..Len(topics) : topics[i].written = 0

\* a flush entered with fewer dirty than written entries (some written entries
\* kept their payload) has published two or more entries
C19_Witness ==
    /\ pc = "poll"
    /\ \E j \in 1..Len(ev) :
          /\ ev[j].op = "flush" /\ ev[j].n > 0 /\ Len(ev[j].w) > ev[j].n
          /\ Len(CallsOfFlush(ev, j)) > 1

\* C20: every cache entry created by a sentence handler is tagged as a data
\* entry (ctrltopic = 0), every entry created outside a handler (src, alive) as
\* a control entry (ctrltopic = 1)
C20_ControlTag ==
    \A i \in 1..Len(topics) :
        topics[i].ctrltopic = IF topics[i].topic \in {SrcTopic, AliveTopic} THEN 1 ELSE 0

(***************************************************************************)
(* SpecLost: GSV blocks of one talker in which satellites come and go.     *)
(***************************************************************************)
\* GPGSV,1,1,1,1,40,083,46
LineGsvLow ==
    <<<<"G", "P", "G", "S", "V">>, <<"1">>, <<"1">>, <<"1">>,
      <<"1">>, <<"4", "0">>, <<"0", "8", "3">>, <<"4", "6">>>>

\* GPGSV,1,1,1,17,30,308,41
LineGsvHigh ==
    <<<<"G", "P", "G", "S", "V">>, <<"1">>, <<"1">>, <<"1">>,
      <<"1", "7">>, <<"3", "0">>, <<"3", "0", "8">>, <<"4", "1">>>>

LostLines ==
    {OkLine(LineGsvA), OkLine(LineGsvB), OkLine(LineGsvLow), OkLine(LineGsvHigh)}

NextLost ==
    \/ OptN(<<"+", "g", "s", "v">>)
    \/ Start
    \/ \E line \in LostLines : ReadTracked(line)
    \/ \E msg \in SatMsgs : MqttMsg(msg)

SpecLost == Init /\ [][NextLost]_vars

\* the PRNs satmin..satmax of the talker of the last sentence
TalkerRange ==
    gsvs[GsvIndex(gsvs, talker)].satmin..gsvs[GsvIndex(gsvs, talker)].satmax

\* C21: after the last packet of a GSV block, no PRN in satmin..satmax of the
\* talker is still marked published without having been received in the block,
\* and the last publish on the sat topics of a PRN that is not marked published
\* is an empty retained payload
C21_LostSatsCleared ==
    GsvBlockRead =>
        \A p \in TalkerRange :
            /\ SatAt(Cur, p).sent # 0 => SatAt(Cur, p).recvd # 0
            /\ SatAt(Cur, p).sent = 0 =>
                  \A leaf \in {"elv", "azm", "snr"} :
                      Qualified(talker, SatTopic(p, leaf)) \in DOMAIN broker =>
                          /\ broker[Qualified(talker, SatTopic(p, leaf))].payload = ""
                          /\ broker[Qualified(talker, SatTopic(p, leaf))].retain = 1

(***************************************************************************)
(* SpecUbx: u-blox frames of several payload lengths, whole and cut after  *)
(* the header, between text lines.                                         *)
(***************************************************************************)
\* the frame of class 1, id 2 with a payload of len bytes 'A'
UbxPayload(len) == <<1, 2, len % 256, len \div 256>> \o [i \in 1..len |-> 65]

UbxFrameOf(len) ==
    <<UbxSync1, UbxSync2>> \o UbxPayload(len)
        \o <<UbloxCrc(UbxPayload(len), 1, len + 4) \div 256,
             UbloxCrc(UbxPayload(len), 1, len + 4) % 256>>

\* payload lengths: below 128, with a low byte of 128 or more, and above 255
UbxLengths == {3, 130, 258}

UbxChunks ==
    {TxtBytes}
        \cup {UbxFrameOf(len) : len \in UbxLengths}
        \cup {SubSeq(UbxFrameOf(len), 1, 6) : len \in UbxLengths}
        \cup {SubSeq(UbxFrameOf(len), 7, len + 8) : len \in UbxLengths}

NextUbx ==
    \/ Start
    \/ \E chunk \in UbxChunks : \E order \in CopyOrders : ReadBounded(chunk, order)

SpecUbx == Init /\ [][NextUbx]_vars

\* the 16-bit little-endian length field at bytes 4-5 of a frame
UbxLength(bytes) == bytes[5] + 256 * bytes[6]

StartsWithSync(bytes) == Len(bytes) >= 2 /\ bytes[1] = UbxSync1 /\ bytes[2] = UbxSync2

\* C22: every frame handed on has 8 + length bytes, length being the 16-bit
\* little-endian field of its header, and once recvd_data has returned no whole
\* frame of 8 + length bytes is left at the start of the buffer
C22_FrameLength ==
    pc = "poll" =>
        /\ \A i \in 1..Len(handed) :
              handed[i].kind = "frame" =>
                  Len(handed[i].bytes) = UbxOverhead + UbxLength(handed[i].bytes)
        /\ (StartsWithSync(buf) /\ Len(buf) >= UbxOverhead) =>
              Len(buf) < UbxOverhead + UbxLength(buf)

(***************************************************************************)
(* SpecLatch: GGA sentences of the talkers gp, gl and of the combined      *)
(* talker gn, with several sats-in-use values, under both settings of      *)
(* always and with GSV switched off at run time.                           *)
(***************************************************************************)
\* GNGGA,123519,4807.038,N,01131.000,E,1,11,0.9,545.4,M,46.9,M,,
LineGgaGn == [LineGga1 EXCEPT ![1] = <<"G", "N", "G", "G", "A">>, ![8] = <<"1", "1">>]
\* GNGGA,123519,4807.038,N,01131.000,E,1,12,0.9,545.4,M,46.9,M,,
LineGgaGn2 == [LineGga1 EXCEPT ![1] = <<"G", "N", "G", "G", "A">>, ![8] = <<"1", "2">>]

LatchLines ==
    {OkLine(LineGga1), OkLine(LineGga2), OkLine(LineGgaGl), OkLine(LineGgaGn),
     OkLine(LineGgaGn2)}

LatchMsgs == SatMsgs \cup {CfgMsgs(<<"-", "g", "s", "v">>)}

NextLatch ==
    \/ OptN(<<"+", "g", "s", "v">>)
    \/ Start
    \/ \E line \in LatchLines : ReadInput(line)
    \/ \E msg \in LatchMsgs : MqttMsg(msg)

SpecLatch == Init /\ [][NextLatch]_vars

\* the talker of a sentence, in lower case
LineTalker(line) == Str(LowerStr(SubSeq(Tok(line.toks, 1), 1, 2)))

\* the writes of the last step to gps/gn/satuse, to the cache or to the broker
GnSatUseWrites ==
    {i \in 1..Len(ev) :
        ev[i].op \in {"pub", "cache"} /\ ev[i].topic = Qualified("gn", "satuse")}

\* C23: once gn_satuse_emitted is set it stays set, and every later write to
\* gn/satuse while a sentence is handled comes from a sentence of talker gn
\* and carries that sentence's own sats-in-use value
C23_LatchOneWay ==
    [][gn_satuse_emitted # 0 =>
          /\ gn_satuse_emitted' # 0
          /\ lastEvt'.kind = "read" =>
                \A i \in GnSatUseWrites' :
                    /\ LineTalker(lastEvt'.line) = "gn"
                    /\ ev'[i].payload = FmtInt(StrToUL(Tok(lastEvt'.line.toks, 8)))
      ]_vars

\* after the latch was set, a GPGGA with a new sats-in-use value was handled and
\* gn/satuse still carries the receiver's own value
C23_Witness ==
    /\ gn_satuse_emitted # 0 /\ pc = "poll"
    /\ lastEvt.kind = "read" /\ lastEvt.line = OkLine(LineGga2)
    /\ GnSatUseWrites = {}
    /\ Published(Qualified("gn", "satuse"), "12")
    /\ Published(Qualified("gp", "satuse"), "9")

(***************************************************************************)
(* SpecSatUse: GGA sentences of the talkers gp and gl with the sats-in-use *)
(* values 0, 8 and 9; no sentence of talker gn.                            *)
(***************************************************************************)
\* GPGGA,123519,4807.038,N,01131.000,E,1,00,0.9,545.4,M,46.9,M,,
LineGgaZero == [LineGga1 EXCEPT ![8] = <<"0", "0">>]

SatUseLines == {OkLine(LineGga1), OkLine(LineGga2), OkLine(LineGgaGl), OkLine(LineGgaZero)}

NextSatUse ==
    \/ Start
    \/ \E line \in SatUseLines : ReadInput(line)
    \/ \E msg \in SatMsgs : MqttMsg(msg)

SpecSatUse == Init /\ [][NextSatUse]_vars

\* the last step handled and flushed a GGA sentence
SatUseRead == lastEvt.kind = "read" /\ lastEvt.line \in SatUseLines /\ pc = "poll"

\* C24: while gn_satuse_emitted is clear, after a GGA sentence of talker T the
\* satuse stored for T is the sentence's sats-in-use value and the last publish
\* on gn/satuse carries the sum of satuse over all tracked talkers
C24_SatUseSum ==
    (SatUseRead /\ gn_satuse_emitted = 0) =>
        /\ GsvIndex(gsvs, talker) # 0
        /\ gsvs[GsvIndex(gsvs, talker)].satuse = StrToUL(Tok(lastEvt.line.toks, 8))
        /\ Published(Qualified("gn", "satuse"), FmtInt(SumField(gsvs, "satuse")))

(***************************************************************************)
(* The frame of the message callback, checked under SpecGsv.               *)
(***************************************************************************)
\* the step was a call of my_mqtt_msg that returned
MqttStep == lastEvt'.kind = "mqtt" /\ pc' = "poll"

CacheUnchanged == topics' = topics /\ ndirty' = ndirty

LivenessUnchanged == portalive' = portalive /\ alarm' = alarm

TrackerUnchanged ==
    /\ sats' = sats /\ ssats' = ssats /\ gsvs' = gsvs /\ sgsvs' = sgsvs
    /\ heap' = heap /\ gn_satuse_emitted' = gn_satuse_emitted

\* the step turned GSV from enabled to disabled
GsvSwitchedOff ==
    /\ NmeaUseMsgIn(nmea_use, <<"g", "s", "v">>) # 0
    /\ NmeaUseMsgIn(nmea_use', <<"g", "s", "v">>) = 0

\* C25 as stated: my_mqtt_msg leaves the cache, the tracker and the liveness
\* state unchanged, whatever the message
C25_CallbackFrame ==
    [][MqttStep => CacheUnchanged /\ TrackerUnchanged /\ LivenessUnchanged]_vars

\* C25 amended: my_mqtt_msg leaves the cache, the liveness state and the framer
\* unchanged; it leaves the tracker unchanged and publishes nothing unless the
\* message turns GSV from enabled to disabled, and then clear_gsvs empties the
\* tracker
C25_CallbackFrameButGsvOff ==
    [][MqttStep =>
          /\ CacheUnchanged /\ LivenessUnchanged
          /\ talker' = talker /\ in_data_sentence' = in_data_sentence
          /\ buf' = buf /\ handed' = handed
          /\ IF GsvSwitchedOff
             THEN /\ gsvs' = <<>> /\ sats' = <<>> /\ ssats' = 0 /\ sgsvs' = 0
                  /\ gn_satuse_emitted' = gn_satuse_emitted
             ELSE TrackerUnchanged /\ Silent'
      ]_vars

\* a cfg/msgs message has switched GSV off while satellites were tracked: the
\* tracker is empty, its storage released and deletes were published
C25_Witness ==
    /\ lastEvt.kind = "mqtt" /\ pc = "poll"
    /\ lastEvt.gsv0 # 0 /\ NmeaUseMsgIn(nmea_use, <<"g", "s", "v">>) = 0
    /\ gsvs = <<>> /\ heap.gsvs = "freed" /\ heap.sats = "freed"
    /\ ~Silent
    /\ topics # <<>>

(***************************************************************************)
(* SpecGrow: GSV blocks whose PRNs lie around the multiples of SatsChunk.  *)
(***************************************************************************)
\* <TK>GSV,1,1,1,<prn>,40,083,46
LineGsvPrn(tk, prn) ==
    <<tk \o <<"G", "S", "V">>, <<"1">>, <<"1">>, <<"1">>,
      prn, <<"4", "0">>, <<"0", "8", "3">>, <<"4", "6">>>>

GrowLines ==
    {OkLine(LineGsvPrn(<<"G", "P">>, <<"1">>)),
     OkLine(LineGsvPrn(<<"G", "L">>, <<"1", "2", "7">>)),
     OkLine(LineGsvPrn(<<"G", "L">>, <<"1", "2", "8">>)),
     OkLine(LineGsvPrn(<<"G", "A">>, <<"2", "0", "0">>)),
     OkLine(LineGsvPrn(<<"G", "B">>, <<"2", "5", "6">>))}

NextGrow ==
    \/ OptN(<<"+", "g", "s", "v">>)
    \/ Start
    \/ \E line \in GrowLines : ReadTracked(line)

SpecGrow == Init /\ [][NextGrow]_vars

\* C26: no index into the sats vector is out of bounds, and after a GSV packet
\* the capacity ssats is a multiple of 128 strictly greater than every PRN of
\* the packet
C26_SatsCapacity ==
    /\ pc # "crashed"
    /\ GsvRead =>
          /\ ssats % SatsChunk = 0
          /\ \A prn \in LinePrns(lastEvt.line) : prn < ssats

(***************************************************************************)
(* The tracker after clear_gsvs, checked under SpecGsv.                    *)
(***************************************************************************)
\* the last step was a cfg/msgs message that turned GSV off: clear_gsvs has run
GsvCleared ==
    /\ lastEvt.kind = "mqtt" /\ pc = "poll"
    /\ lastEvt.gsv0 # 0 /\ NmeaUseMsgIn(nmea_use, <<"g", "s", "v">>) = 0

\* C27: after clear_gsvs the tracker is as it was at the start of the run: no
\* talker, no satellite record, capacities 0 and no pointer to a released block
C27_ClearedIsInitial ==
    GsvCleared =>
        /\ gsvs = <<>> /\ sgsvs = 0 /\ sats = <<>> /\ ssats = 0
        /\ heap.gsvs = "null" /\ heap.sats = "null"

(***************************************************************************)
(* SpecTable: -n options and cfg/msgs payloads with tokens that are codes, *)
(* parts of codes, bare signs and unknown codes.                           *)
(***************************************************************************)
\* payloads in delta mode whose only token is not one of the six codes
NonCodePayloads ==
    {<<"-", "g">>, <<"-", "a">>, <<"+", "s", "v">>, <<"-">>, <<"+", ",", "+">>,
     <<"-", "r", "m", "c">>, <<"-", "g", "g", "a", "x">>}

TablePayloads == NonCodePayloads \cup {<<"+", "g", "s", "v">>, <<"-", "v", "t", "g">>}

NextTable ==
    \/ \E arg \in TablePayloads : OptN(arg)
    \/ Start
    \/ \E payload \in TablePayloads : MqttMsg(CfgMsgs(payload))
    \/ ReadInput(OkLine(LineGga1))

SpecTable == Init /\ [][NextTable]_vars

\* the table holds the six codes in their places, each preceded by + or -
WellFormedTable(tab) ==
    /\ Len(tab) = Len(NmeaUseDefault)
    /\ \A i \in 1..Len(tab) :
          IF i % 5 = 1 /\ i < 30 THEN tab[i] \in {"+", "-"} ELSE tab[i] = NmeaUseDefault[i]

\* C28: nmea_use stays a well-formed table, nothing is written outside it, and
\* a payload whose tokens are not codes leaves it as it was
C28_TableWellFormed ==
    [][/\ pc' # "crashed"
       /\ WellFormedTable(nmea_use')
       /\ (lastEvt'.kind \in {"optn", "mqtt"} /\ lastEvt'.msg.payload \in NonCodePayloads)
             => nmea_use' = nmea_use
      ]_vars

(***************************************************************************)
(* SpecStall: whole valid lines between bytes that are no line: a NUL      *)
(* byte, text without a newline, a newline alone and a frame with a wrong  *)
(* checksum.                                                               *)
(***************************************************************************)
NulChunk == <<0>>
GarbageChunk == <<65, 66>>
\* UbxFrame with its last checksum byte changed
BadCrcFrame == [UbxFrame EXCEPT ![Len(UbxFrame)] = (@ + 1) % 256]

StallChunks == {TxtBytes, VtgBytes, NulChunk, GarbageChunk, <<Newline>>, BadCrcFrame}

NextStall ==
    \/ Start
    \/ \E chunk \in StallChunks : \E order \in CopyOrders : ReadBounded(chunk, order)

SpecStall == Init /\ [][NextStall]_vars

IsSuffix(a, b) == Len(b) >= Len(a) /\ SubSeq(b, Len(b) - Len(a) + 1, Len(b)) = a

\* C29: whatever bytes were read before, once a whole valid line has been read
\* that line has been handed to the lexer: it ends the last item handed on
C29_LineHandedAfterAnyBytes ==
    (pc = "poll" /\ fed # <<>> /\ fed[Len(fed)] \in {TxtBytes, VtgBytes}) =>
        /\ handed # <<>>
        /\ handed[Len(handed)].kind = "line"
        /\ IsSuffix(CutLine(fed[Len(fed)]).bytes, handed[Len(handed)].bytes)

(***************************************************************************)
(* SpecEof: bytes read in chunks, whole lines and the start of a line,     *)
(* until the input ends or SIGTERM arrives, and the shutdown after it.     *)
(***************************************************************************)
GsvLowBytes == Sentence(LineGsvLow)

EofChunks == {TxtBytes, GsvLowBytes, SubSeq(VtgBytes, 1, 10)}

NextEof ==
    \/ OptN(<<"+", "g", "s", "v">>)
    \/ Start
    \/ \E chunk \in EofChunks : \E order \in CopyOrders : ReadBounded(chunk, order)
    \/ ReadEof
    \/ SigAlrm
    \/ SigTerm
    \/ Shutdown
    \/ SyncMsg(TokenMsg)
    \/ Exit

SpecEof == Init /\ [][NextEof]_vars

\* C30: read() = 0 leaves the loop at once: nothing is published, alive and the
\* cache stay as they are and the buffered bytes are not handed on.  The next
\* step is the shutdown sequence, which is the one that follows SIGTERM: every
\* non-empty cache entry is deleted, the tracker is cleared, the token is
\* published last and the program waits for it; no line is handed on
C30_EofShutsDown ==
    [][/\ lastEvt'.kind = "eof" =>
            /\ pc' = "break" /\ ev' = <<>>
            /\ handed' = handed /\ buf' = buf
            /\ portalive' = portalive /\ topics' = topics /\ broker' = broker
       /\ pc = "break" => lastEvt'.kind = "shutdown"
       /\ lastEvt'.kind = "shutdown" =>
            /\ pc = "break" \/ (pc = "poll" /\ sigterm = 1)
            /\ pc' = "sync" /\ ready' = ready
            /\ handed' = handed /\ buf' = buf
            /\ gsvs' = <<>> /\ sats' = <<>>
            /\ ev'[Len(ev')] = EvPub(Str(SelfSyncTopic), Str(Token), 0)
            /\ \A j \in 1..Len(ev') : ev'[j] # EvPub(AliveTopic, "1", 1)
            /\ \A i \in 1..Len(topics) :
                  PayloadStr(topics[i].payload) # "" =>
                      \E j \in 1..(Len(ev') - 1) : ev'[j] = EvPub(topics[i].topic, "", 1)
      ]_vars

\* the input ended while the start of a line was buffered and a satellite was
\* tracked; the shutdown sequence has run and the bytes are still in the buffer
C30_Witness ==
    /\ lastEvt.kind = "shutdown" /\ pc = "sync" /\ sigterm = 0
    /\ buf = SubSeq(VtgBytes, 1, 10)
    /\ handed # <<>>
    /\ Published(Qualified("gp", SatTopic(1, "elv")), "")
    /\ Published(AliveTopic, "")

(***************************************************************************)
(* The isolation of the talkers in the tracker, checked under SpecSat.     *)
(***************************************************************************)
\* the record sats[prn]
SatRecord(prn) == IF prn \in DOMAIN sats THEN sats[prn] ELSE ZeroSat

\* the PRNs published for the talker of entry i of gsvs
TrackedPrns(i) == {p \in gsvs[i].satmin..gsvs[i].satmax : p >= 1 /\ SatRecord(p).sent # 0}

\* C31: a GSV packet of a talker leaves the record (elv, azm, snr, recvd, sent)
\* of every PRN tracked for any other talker as it was
C31_TalkersIsolated ==
    [][GsvRead' =>
          \A i \in 1..Len(gsvs) :
              gsvs[i].talker # talker' =>
                  \A p \in TrackedPrns(i) : SatRecord(p)' = SatRecord(p)
      ]_vars

====
